---- MODULE Spec2Model ----
(***************************************************************************)
(* Model of the stock-data store of crawler/database.py: the SQLite tables *)
(* (symbols, daily_prices, the four quarterly statement tables), the       *)
(* import functions that write them, and the query functions that read     *)
(* them.  A state is the COMMITTED content of the database file; every     *)
(* import opens its own connection, so an import that raises before        *)
(* conn.commit() leaves the committed content as it was.  now is the wall  *)
(* clock in seconds, last the most recent call with its arguments and its  *)
(* outcome, ops the number of calls made, conns the connections of the     *)
(* imports that run step by step (concurrently), fetch and poll the calls  *)
(* of fetch_historical_api and poll_symbols in progress.                   *)
(***************************************************************************)
EXTENDS Integers, Sequences, FiniteSets, TLC

VARIABLES symbols, daily_prices, fundamentals_quarterly, income_statement,
          balance_sheet, cashflow, now, last, ops, conns, fetch, poll

tables == <<symbols, daily_prices, fundamentals_quarterly, income_statement,
            balance_sheet, cashflow>>
vars == <<symbols, daily_prices, fundamentals_quarterly, income_statement,
          balance_sheet, cashflow, now, last, ops, conns, fetch, poll>>
\* The state of the crawler functions, which the store functions leave alone.
crawl == <<fetch, poll>>

(***************************************************************************)
(* Bounds of the model.                                                    *)
(***************************************************************************)
MaxRows == 2        \* rows of one imported DataFrame
MaxClock == 1       \* seconds the wall clock may advance (CURRENT_TIMESTAMP)
MaxOps == 3         \* calls in one run of the specification Spec
MaxDates == 4       \* dates of a price matrix given to the factor helpers
MaxRounds == 3      \* polling rounds of one call of poll_symbols

(***************************************************************************)
(* Values.  A cell of a DataFrame or of a table is one of: SQL NULL, the   *)
(* pandas missing value (None / NaN / NaT), a number, a text.              *)
(***************************************************************************)
NULL == [t |-> "null"]
NaN == [t |-> "nan"]
Num(n) == [t |-> "num", v |-> n]
Text(s) == [t |-> "text", v |-> s]
\* A pandas Timestamp: calendar day and hour of day.
Ts(ymd, h) == [t |-> "ts", ymd |-> ymd, h |-> h]
\* The text 'YYYY-MM-DD' (zero padded), held as its three numbers.
Iso(ymd) == [t |-> "iso", ymd |-> ymd]
\* What a conversion that raises produces instead of a value.
Raises == [t |-> "raises"]

\* sqlite3 binds Python None and float('nan') as NULL.
Bind(v) == IF v = NaN THEN NULL ELSE v

\* Texts that look like a number, with the number SQLite converts them to.
NumericText == ("7" :> 7)

\* Column affinity of SQLite on INSERT: in a REAL / INTEGER / DATE (NUMERIC)
\* column a text that looks like a number is converted to it and any other
\* text is stored as text; in a TEXT column a number is stored as its text.
Affinity(aff, v) ==
    IF aff = "TEXT"
    THEN IF v.t = "num" THEN Text(ToString(v.v)) ELSE v
    ELSE IF v.t = "text" /\ v.v \in DOMAIN NumericText
         THEN Num(NumericText[v.v])
         ELSE v

(***************************************************************************)
(* Dates.  pd.to_datetime(col) with the default errors='raise', then       *)
(* .dt.strftime('%Y-%m-%d').                                               *)
(***************************************************************************)
\* The text 'a/b/y' of three numbers with slashes, as in '05/02/2024'.
Slash(a, b, y) == [t |-> "slash", a |-> a, b |-> b, y |-> y]

Leap(y) == y % 4 = 0 /\ (y % 100 # 0 \/ y % 400 = 0)
DaysIn(m, y) ==
    IF m = 2 THEN (IF Leap(y) THEN 29 ELSE 28)
    ELSE IF m \in {4, 6, 9, 11} THEN 30 ELSE 31
ValidDay(y, m, d) == m \in 1..12 /\ d \in 1..DaysIn(m, y)

\* The day and the month of a/b/y taken as they stand in the text.
DayFirst(v) ==
    IF ValidDay(v.y, v.b, v.a) THEN Ts(<<v.y, v.b, v.a>>, 0) ELSE Raises
\* pd.to_datetime with the default dayfirst=False on the text a/b/y: a is
\* read as the month whenever that gives a date, and as the day otherwise.
\* (A column is read with one format; the frames of the model hold at most
\* one text of this kind.)
MonthFirst(v) ==
    IF ValidDay(v.y, v.a, v.b) THEN Ts(<<v.y, v.a, v.b>>, 0) ELSE DayFirst(v)

ToDatetime(v) ==
    CASE v.t = "ts" -> v
      [] v.t = "iso" -> Ts(v.ymd, 0)
      [] v.t = "nan" -> NaN
      [] v.t = "slash" -> MonthFirst(v)
      [] OTHER -> Raises

StrfTime(v) == IF v.t = "ts" THEN Iso(v.ymd) ELSE NaN

\* Order of two calendar days (comparison of datetime64 values).
DateLe(a, b) ==
    \/ a[1] < b[1]
    \/ a[1] = b[1] /\ a[2] < b[2]
    \/ a[1] = b[1] /\ a[2] = b[2] /\ a[3] <= b[3]

\* The characters of the text '%Y-%m-%d' writes for a day: the year and
\* the two digits each of the month and the day.
IsoText(ymd) ==
    <<ymd[1], ymd[2] \div 10, ymd[2] % 10, ymd[3] \div 10, ymd[3] % 10>>

\* Order of two texts of the same length, character by character, as SQLite
\* compares the TEXT values of the date column.
TextLe(a, b) ==
    \/ a = b
    \/ \E i \in DOMAIN a :
          a[i] < b[i] /\ \A j \in 1..(i - 1) : a[j] = b[j]

(***************************************************************************)
(* DataFrames: an ordered list of column names and a list of rows, each    *)
(* row a function from the column names to values.                         *)
(***************************************************************************)
Range(s) == {s[i] : i \in DOMAIN s}
HasCol(df, c) == c \in Range(df.columns)
SeqsUpTo(S, n) == UNION {[1..k -> S] : k \in 0..n}
Frames(cols, rowset, n) ==
    {[columns |-> cols, rows |-> rs] : rs \in SeqsUpTo(rowset, n)}
EmptyFrame(cols) == [columns |-> cols, rows |-> <<>>]
SingleRowFrames(cols, rowset) ==
    {[columns |-> cols, rows |-> <<r>>] : r \in rowset}


(***************************************************************************)
(* Schema (init_database).  A table is a set of rows; a row is a function  *)
(* from the table's column names to values.  The PRIMARY KEY of a table is *)
(* enforced by the statements that write it (below).  No PRAGMA            *)
(* foreign_keys is issued, so SQLite does not enforce the FOREIGN KEY      *)
(* clauses.                                                                *)
(***************************************************************************)
SymbolCols ==
    {"symbol", "name", "exchange", "industry", "industry_en", "no_employees",
     "foreign_percent", "outstanding_shares", "listed_date", "updated_at"}

DailyKey == <<"symbol", "date">>
DailyCols ==
    {"symbol", "date", "open", "high", "low", "close", "adj_close", "volume",
     "value", "deal_volume", "deal_value", "change_pct",
     "returns", "volatility_20d", "avg_volume_20d"}

QuarterKey == <<"symbol", "year", "quarter">>
RatioCols ==
    {"symbol", "year", "quarter",
     "report_date", "pe", "pb", "ps", "ev_ebitda", "roe", "roa",
     "gross_margin", "operating_margin", "net_margin", "eps", "bvps",
     "dividend", "revenue_growth_yoy", "eps_growth_yoy", "asset_turnover",
     "days_receivable", "days_inventory", "days_payable", "cash_cycle",
     "debt_to_equity", "debt_to_assets", "current_ratio", "quick_ratio",
     "interest_coverage", "accruals", "earnings_quality", "updated_at"}

IncomeCols ==
    {"symbol", "year", "quarter",
     "revenue", "cost_of_goods", "gross_profit", "operating_expense",
     "operating_profit", "interest_expense", "pretax_profit", "tax",
     "net_profit", "shareholder_income", "ebitda", "revenue_growth_yoy",
     "revenue_growth_qoq", "profit_growth_yoy", "profit_growth_qoq",
     "updated_at"}

BalanceCols ==
    {"symbol", "year", "quarter",
     "total_assets", "current_assets", "cash", "short_term_investments",
     "receivables", "inventory", "fixed_assets", "total_liabilities",
     "current_liabilities", "short_term_debt", "long_term_debt",
     "total_debt", "total_equity", "retained_earnings", "updated_at"}

CashflowCols ==
    {"symbol", "year", "quarter",
     "cfo", "cfi", "cff", "net_cash_change", "capex", "fcf",
     "dividends_paid", "updated_at"}

\* Declared type of a column: the TEXT columns; every other one is REAL,
\* INTEGER, DATE or TIMESTAMP, all of which convert numeric-looking text.
ColAffinity(c) ==
    IF c \in {"symbol", "name", "exchange", "industry", "industry_en"}
    THEN "TEXT" ELSE "NUMERIC"

\* The value a column gets when an INSERT does not list it
\* (updated_at TIMESTAMP DEFAULT CURRENT_TIMESTAMP).
ColDefault(c, t) == IF c = "updated_at" THEN Num(t) ELSE NULL

\* A delete whose WHERE clause is missing: every row of the table.
AllRows(tbl, keycols, row) == tbl

\* Rows of tbl that agree with row on every column of the key.
SameKey(tbl, keycols, row) ==
    {x \in tbl : \A i \in DOMAIN keycols : x[keycols[i]] = row[keycols[i]]}

(***************************************************************************)
(* SQL statements shared by the import functions.                          *)
(***************************************************************************)
\* INSERT OR IGNORE INTO symbols (symbol) VALUES (?)
InsertOrIgnoreSymbol(tbl, symbol, t) ==
    LET row == [c \in SymbolCols |->
                  IF c = "symbol" THEN Text(symbol) ELSE ColDefault(c, t)]
    IN  IF SameKey(tbl, <<"symbol">>, row) # {} THEN tbl ELSE tbl \cup {row}

\* A plain INSERT into a table declared without its PRIMARY KEY: nothing is
\* deleted.
InsertKeepingOld(tbl, keycols, cols, available, r, t) ==
    LET row == [c \in cols |->
                  IF c \in available
                  THEN Affinity(ColAffinity(c), Bind(r[c]))
                  ELSE ColDefault(c, t)]
    IN  IF \E i \in DOMAIN keycols : row[keycols[i]] = NULL
        THEN [ok |-> FALSE, tbl |-> tbl]
        ELSE [ok |-> TRUE, tbl |-> tbl \cup {row}]

\* INSERT OR REPLACE of one row: the rows with the same primary key are
\* deleted and the new row is inserted, unlisted columns taking their
\* defaults.  A NULL in a key column (declared NOT NULL, no default) aborts
\* the statement: ok is then FALSE (sqlite3.IntegrityError).
InsertOrReplace(tbl, keycols, cols, available, r, t) ==
    LET row == [c \in cols |->
                  IF c \in available
                  THEN Affinity(ColAffinity(c), Bind(r[c]))
                  ELSE ColDefault(c, t)]
    IN  IF \E i \in DOMAIN keycols : row[keycols[i]] = NULL
        THEN [ok |-> FALSE, tbl |-> tbl]
        ELSE [ok |-> TRUE,
              tbl |-> (tbl \ SameKey(tbl, keycols, row)) \cup {row}]

\* conn.executemany(INSERT OR REPLACE ..., rows): the rows in order; the
\* first one that violates NOT NULL raises and ends the call.
RECURSIVE ExecuteMany(_, _, _, _, _, _)
ExecuteMany(tbl, keycols, cols, available, rows, t) ==
    IF rows = <<>>
    THEN [ok |-> TRUE, tbl |-> tbl]
    ELSE LET one == InsertOrReplace(tbl, keycols, cols, available,
                                    Head(rows), t)
         IN  IF ~one.ok
             THEN one
             ELSE ExecuteMany(one.tbl, keycols, cols, available,
                              Tail(rows), t)

\* [c for c in cols if c in df.columns], as the set of the names kept.
AvailableCols(cols, present) == {c \in Range(cols) : c \in present}

\* What an import call leaves behind: raised, or the tables it commits
\* (conn.commit()) and the row count it returns.
Raised(syms, tbl) ==
    [raised |-> TRUE, symbols |-> syms, table |-> tbl, count |-> 0]
Committed(syms, tbl, n) ==
    [raised |-> FALSE, symbols |-> syms, table |-> tbl, count |-> n]

(***************************************************************************)
(* import_daily_prices(df, symbol)                                         *)
(***************************************************************************)
\* Percent-change texts such as "6(4.80 %)" and the number the pattern
\* \(([-\d.]+)\s*%\) captures from them.
PctText == ("6(5 %)" :> 5) @@ ("-2(-3 %)" :> -3)
\* A text the pattern matches but whose capture is no number: "(- %)".
PctBadText == {"(- %)"}

\* df['change'].astype(str).str.extract(...)[0].astype(float), one cell:
\* the captured number, NaN when the pattern does not match, and a
\* ValueError from astype(float) when the capture is not a number.
ExtractPct(v) ==
    IF v.t = "text" /\ v.v \in DOMAIN PctText THEN Num(PctText[v.v])
    ELSE IF v.t = "text" /\ v.v \in PctBadText THEN Raises
    ELSE NaN

DailyImportCols ==
    <<"symbol", "date", "open", "high", "low", "close", "adj_close",
      "volume", "value", "deal_volume", "deal_value", "change_pct">>

\* One row dictionary handed to executemany: the row of df.copy() with the
\* symbol column set, the date converted and change_pct extracted.
DailyRecord(df, symbol, r) ==
    LET r1 == ("symbol" :> Text(symbol)) @@ r
        r2 == IF HasCol(df, "date")
              THEN ("date" :> StrfTime(ToDatetime(r["date"]))) @@ r1
              ELSE r1
    IN  IF HasCol(df, "change")
        THEN ("change_pct" :> ExtractPct(r["change"])) @@ r2
        ELSE r2

DailyPresent(df) ==
    Range(df.columns) \cup {"symbol"}
        \cup (IF HasCol(df, "change") THEN {"change_pct"} ELSE {})

\* Whether the preparation of the frame raises before any row is written.
DailyPrepareRaises(df) ==
    \/ /\ HasCol(df, "date")
       /\ \E i \in DOMAIN df.rows : ToDatetime(df.rows[i]["date"]) = Raises
    \/ /\ HasCol(df, "change")
       /\ \E i \in DOMAIN df.rows : ExtractPct(df.rows[i]["change"]) = Raises

\* The outcome of the call on the committed tables syms, prices at time t.
ImportDailyOutcome(syms, prices, t, df, symbol) ==
    IF DailyPrepareRaises(df)
    THEN Raised(syms, prices)
    ELSE LET done == ExecuteMany(
                        prices, DailyKey, DailyCols,
                        AvailableCols(DailyImportCols, DailyPresent(df)),
                        [i \in DOMAIN df.rows |->
                            DailyRecord(df, symbol, df.rows[i])],
                        t)
         IN  IF done.ok
             THEN Committed(InsertOrIgnoreSymbol(syms, symbol, t), done.tbl,
                            Len(df.rows))
             ELSE Raised(syms, prices)

\* The record of a call: again says that the call before it was the same
\* call (same function, symbol and frame) and did not raise.
Call(op, symbol, df, out) ==
    [op |-> op, symbol |-> symbol, df |-> df, raised |-> out.raised,
     count |-> out.count,
     again |-> /\ last.op = op
               /\ last.symbol = symbol
               /\ last.df = df
               /\ ~last.raised]

import_daily_prices(df, symbol) ==
    \E out \in {ImportDailyOutcome(symbols, daily_prices, now, df, symbol)} :
        /\ symbols' = out.symbols
        /\ daily_prices' = out.table
        /\ last' = Call("import_daily_prices", symbol, df, out)
        /\ UNCHANGED <<fundamentals_quarterly, income_statement,
                       balance_sheet, cashflow, now>>

(***************************************************************************)
(* The statement imports: df.rename(columns=col_map), the select of the    *)
(* target columns and the upsert, shared by the four functions.            *)
(***************************************************************************)
\* The name a raw column has after df.rename(columns=col_map).
MapName(col_map, raw) ==
    IF raw \in DOMAIN col_map THEN col_map[raw] ELSE raw

RenamedCols(df, col_map) == {MapName(col_map, raw) : raw \in Range(df.columns)}

\* The row dictionary of to_dict('records') after the rename: when two raw
\* columns are renamed to one name the dictionary keeps the later one.
RenamedRow(df, col_map, r) ==
    [c \in RenamedCols(df, col_map) |->
        LET at == {i \in DOMAIN df.columns : MapName(col_map, df.columns[i]) = c}
            i == CHOOSE i \in at : \A j \in at : j <= i
        IN  r[df.columns[i]]]

\* The upsert of the prepared rows (functions from column names to values)
\* into statement table tbl, then conn.commit().
UpsertStatement(syms, tbl, t, symbol, cols, target, rows) ==
    LET recs == [i \in DOMAIN rows |-> ("symbol" :> Text(symbol)) @@ rows[i]]
        present == IF rows = <<>> THEN {} ELSE DOMAIN recs[1]
        done == ExecuteMany(tbl, QuarterKey, cols,
                            AvailableCols(target, present), recs, t)
    IN  IF done.ok
        THEN Committed(InsertOrIgnoreSymbol(syms, symbol, t), done.tbl,
                       Len(rows))
        ELSE Raised(syms, tbl)

RatioColMap ==
    [priceToEarning |-> "pe", priceToBook |-> "pb",
     valueBeforeEbitda |-> "ev_ebitda", roe |-> "roe", roa |-> "roa",
     grossProfitMargin |-> "gross_margin",
     operatingProfitMargin |-> "operating_margin",
     postTaxMargin |-> "net_margin", earningPerShare |-> "eps",
     bookValuePerShare |-> "bvps", dividend |-> "dividend",
     epsChange |-> "eps_growth_yoy", daysReceivable |-> "days_receivable",
     daysInventory |-> "days_inventory", daysPayable |-> "days_payable",
     cashCirculation |-> "cash_cycle", debtOnEquity |-> "debt_to_equity",
     debtOnAsset |-> "debt_to_assets", currentPayment |-> "current_ratio",
     quickPayment |-> "quick_ratio", ebitOnInterest |-> "interest_coverage",
     revenueOnAsset |-> "asset_turnover"]

RatioTargetCols ==
    <<"symbol", "year", "quarter", "pe", "pb", "ev_ebitda", "roe", "roa",
      "gross_margin", "operating_margin", "net_margin", "eps", "bvps",
      "dividend", "eps_growth_yoy", "days_receivable", "days_inventory",
      "days_payable", "cash_cycle", "debt_to_equity", "debt_to_assets",
      "current_ratio", "quick_ratio", "interest_coverage", "asset_turnover">>

import_fundamentals_from_ratios(df, symbol) ==
    \E out \in {UpsertStatement(
                    symbols, fundamentals_quarterly, now, symbol, RatioCols,
                    RatioTargetCols,
                    [i \in DOMAIN df.rows |->
                        RenamedRow(df, RatioColMap, df.rows[i])])} :
        /\ symbols' = out.symbols
        /\ fundamentals_quarterly' = out.table
        /\ last' = Call("import_fundamentals_from_ratios", symbol, df, out)
        /\ UNCHANGED <<daily_prices, income_statement, balance_sheet,
                       cashflow, now>>

IncomeColMap ==
    [costOfGoodSold |-> "cost_of_goods", grossProfit |-> "gross_profit",
     operationExpense |-> "operating_expense",
     operationProfit |-> "operating_profit",
     interestExpense |-> "interest_expense", preTaxProfit |-> "pretax_profit",
     postTaxProfit |-> "net_profit", shareHolderIncome |-> "shareholder_income",
     yearRevenueGrowth |-> "revenue_growth_yoy",
     quarterRevenueGrowth |-> "revenue_growth_qoq",
     yearShareHolderIncomeGrowth |-> "profit_growth_yoy",
     quarterShareHolderIncomeGrowth |-> "profit_growth_qoq"]

IncomeTargetCols ==
    <<"symbol", "year", "quarter", "revenue", "cost_of_goods", "gross_profit",
      "operating_expense", "operating_profit", "interest_expense",
      "pretax_profit", "net_profit", "shareholder_income", "ebitda",
      "revenue_growth_yoy", "revenue_growth_qoq", "profit_growth_yoy",
      "profit_growth_qoq">>

import_income_statement(df, symbol) ==
    \E out \in {UpsertStatement(
                    symbols, income_statement, now, symbol, IncomeCols,
                    IncomeTargetCols,
                    [i \in DOMAIN df.rows |->
                        RenamedRow(df, IncomeColMap, df.rows[i])])} :
        /\ symbols' = out.symbols
        /\ income_statement' = out.table
        /\ last' = Call("import_income_statement", symbol, df, out)
        /\ UNCHANGED <<daily_prices, fundamentals_quarterly, balance_sheet,
                       cashflow, now>>

BalanceColMap ==
    [asset |-> "total_assets", shortAsset |-> "current_assets",
     cash |-> "cash", shortInvest |-> "short_term_investments",
     shortReceivable |-> "receivables", inventory |-> "inventory",
     fixedAsset |-> "fixed_assets", debt |-> "total_liabilities",
     shortDebt |-> "short_term_debt", longDebt |-> "long_term_debt",
     equity |-> "total_equity", unDistributedIncome |-> "retained_earnings"]

BalanceTargetCols ==
    <<"symbol", "year", "quarter", "total_assets", "current_assets", "cash",
      "short_term_investments", "receivables", "inventory", "fixed_assets",
      "total_liabilities", "short_term_debt", "long_term_debt", "total_debt",
      "total_equity", "retained_earnings">>

\* The + of two pandas cells: missing if either is missing, the sum of two
\* numbers, the concatenation of two texts, a TypeError otherwise.
Add(a, b) ==
    CASE a.t = "nan" \/ b.t = "nan" -> NaN
      [] a.t = "num" /\ b.t = "num" -> Num(a.v + b.v)
      [] a.t = "text" /\ b.t = "text" -> Text(a.v \o b.v)
      [] OTHER -> Raises

\* df['total_debt'] = df.get('short_term_debt', 0) + df.get('long_term_debt', 0)
\* for one row, done when the frame has no total_debt column but has a
\* short_term_debt column.
TotalDebt(r) ==
    Add(r["short_term_debt"],
        IF "long_term_debt" \in DOMAIN r THEN r["long_term_debt"] ELSE Num(0))

BalanceRecord(r) ==
    IF "total_debt" \notin DOMAIN r /\ "short_term_debt" \in DOMAIN r
    THEN ("total_debt" :> TotalDebt(r)) @@ r
    ELSE r

import_balance_sheet(df, symbol) ==
    \E rows \in {[i \in DOMAIN df.rows |->
                    BalanceRecord(RenamedRow(df, BalanceColMap, df.rows[i]))]} :
    \E out \in {IF \E i \in DOMAIN rows :
                      "total_debt" \in DOMAIN rows[i]
                          /\ rows[i]["total_debt"] = Raises
                THEN Raised(symbols, balance_sheet)
                ELSE UpsertStatement(symbols, balance_sheet, now, symbol,
                                     BalanceCols, BalanceTargetCols, rows)} :
        /\ symbols' = out.symbols
        /\ balance_sheet' = out.table
        /\ last' = Call("import_balance_sheet", symbol, df, out)
        /\ UNCHANGED <<daily_prices, fundamentals_quarterly, income_statement,
                       cashflow, now>>

CashflowColMap ==
    [investCost |-> "cfi", fromInvest |-> "cfi", fromFinancial |-> "cff",
     fromSale |-> "cfo", freeCashFlow |-> "fcf"]

CashflowTargetCols == <<"symbol", "year", "quarter", "cfo", "cfi", "cff", "fcf">>

\* With no rows the function closes the connection and returns 0 before
\* conn.commit(): the INSERT OR IGNORE of the symbol is rolled back.
import_cashflow(df, symbol) ==
    \E out \in {IF df.rows = <<>>
                THEN Committed(symbols, cashflow, 0)
                ELSE UpsertStatement(
                        symbols, cashflow, now, symbol, CashflowCols,
                        CashflowTargetCols,
                        [i \in DOMAIN df.rows |->
                            RenamedRow(df, CashflowColMap, df.rows[i])])} :
        /\ symbols' = out.symbols
        /\ cashflow' = out.table
        /\ last' = Call("import_cashflow", symbol, df, out)
        /\ UNCHANGED <<daily_prices, fundamentals_quarterly, income_statement,
                       balance_sheet, now>>

(***************************************************************************)
(* import_overview(df, symbol)                                             *)
(***************************************************************************)
OverviewKeys ==
    [name |-> "shortName", exchange |-> "exchange", industry |-> "industry",
     industry_en |-> "industryEn", no_employees |-> "noEmployees",
     foreign_percent |-> "foreignPercent",
     outstanding_shares |-> "outstandingShare"]

\* The parameters of the INSERT OR REPLACE: the symbol and row.get(key) of
\* the first row of the frame, None for a key the row does not have.
OverviewRecord(df, symbol) ==
    [c \in {"symbol"} \cup DOMAIN OverviewKeys |->
        IF c = "symbol" THEN Text(symbol)
        ELSE IF HasCol(df, OverviewKeys[c])
             THEN df.rows[1][OverviewKeys[c]]
             ELSE NaN]

import_overview(df, symbol) ==
    \E out \in {IF df.rows = <<>> \/ df.columns = <<>>
                THEN Committed(symbols, symbols, 0)
                ELSE LET done == InsertOrReplace(
                                    symbols, <<"symbol">>, SymbolCols,
                                    {"symbol"} \cup DOMAIN OverviewKeys,
                                    OverviewRecord(df, symbol), now)
                     IN  Committed(done.tbl, done.tbl, 1)} :
        /\ symbols' = out.symbols
        /\ last' = Call("import_overview", symbol, df, out)
        /\ UNCHANGED <<daily_prices, fundamentals_quarterly, income_statement,
                       balance_sheet, cashflow, now>>

\* The wall clock read by CURRENT_TIMESTAMP moves on between calls.
Tick ==
    /\ now < MaxClock
    /\ now' = now + 1
    /\ UNCHANGED <<tables, last>>

NoCall == [op |-> "none", symbol |-> "", df |-> <<>>, raised |-> FALSE,
           count |-> 0, again |-> FALSE]

\* The connections of the calls in progress.  pc is the position of the
\* call in import_daily_prices, lock says that the connection holds the
\* write lock of the database file, syms and prices are the tables as its
\* open transaction sees them, k is the number of rows executemany wrote.
Conns == {1, 2}
NoConn == [pc |-> "none", symbol |-> "", df |-> <<>>, lock |-> FALSE,
           syms |-> {}, prices |-> {}, k |-> 0]

\* fetch_historical_api and poll_symbols before they are called.
NoFetch == [pc |-> "none", max_pages |-> 0, page_index |-> 0,
            all_rows |-> <<>>, requests |-> 0, stopped |-> "", out |-> <<>>,
            pages |-> <<>>]
NoPoll == [pc |-> "none", symbols |-> <<>>, limited |-> FALSE,
           max_iterations |-> 0, iter_count |-> 0, at |-> 0,
           attempts |-> <<>>]

Init ==
    /\ symbols = {}
    /\ daily_prices = {}
    /\ fundamentals_quarterly = {}
    /\ income_statement = {}
    /\ balance_sheet = {}
    /\ cashflow = {}
    /\ now = 0
    /\ last = NoCall
    /\ ops = 0
    /\ conns = [c \in Conns |-> NoConn]
    /\ fetch = NoFetch
    /\ poll = NoPoll

(***************************************************************************)
(* Queries.  Arguments are None (NULL), a list List(<<...>>) or a text; a   *)
(* result is a DataFrame with the names of its index columns.              *)
(***************************************************************************)
List(v) == [t |-> "list", v |-> v]

\* Python truthiness of an argument: None, [] and '' are false.
Truthy(arg) ==
    CASE arg.t = "null" -> FALSE
      [] arg.t = "list" -> arg.v # <<>>
      [] arg.t = "text" -> arg.v # ""
      [] OTHER -> TRUE

\* The order of symbol texts.
SymbolsSorted == <<"AAA", "BBB", "ZZZ">>
SymbolOrd(v) == CHOOSE i \in DOMAIN SymbolsSorted : SymbolsSorted[i] = v.v

\* A stable sort of a sequence, as sort_values and ORDER BY over distinct
\* keys order rows: le[<<j, i>>] says row j may stand before row i, and
\* rows that may stand either way keep their order.
StableSort(seq, le) ==
    LET Before(j, i) ==
            /\ j # i
            /\ le[<<j, i>>]
            /\ (le[<<i, j>>] => j < i)
        Pos(i) == 1 + Cardinality({j \in DOMAIN seq : Before(j, i)})
    IN  [k \in DOMAIN seq |-> seq[CHOOSE i \in DOMAIN seq : Pos(i) = k]]

\* The rows a SELECT visits, in some order, before ORDER BY.
RECURSIVE Scan(_)
Scan(S) ==
    IF S = {} THEN <<>>
    ELSE LET x == CHOOSE x \in S : TRUE IN <<x>> \o Scan(S \ {x})

\* ORDER BY symbol, date: the two keys in the other order.
OrderBySymbolDate(x, y) ==
    \/ SymbolOrd(x["symbol"]) < SymbolOrd(y["symbol"])
    \/ /\ x["symbol"] = y["symbol"]
       /\ TextLe(IsoText(x["date"].ymd), IsoText(y["date"].ymd))

\* ORDER BY date, symbol on the stored texts.
OrderByDateSymbol(x, y) ==
    \/ /\ x["date"] # y["date"]
       /\ TextLe(IsoText(x["date"].ymd), IsoText(y["date"].ymd))
    \/ /\ x["date"] = y["date"]
       /\ SymbolOrd(x["symbol"]) <= SymbolOrd(y["symbol"])

\* A value read back by pandas: NULL is a missing value, and a column named
\* in parse_dates becomes a Timestamp.
FromSql(v) == IF v = NULL THEN NaN ELSE v
ParseDates(v) == IF v.t = "iso" THEN Ts(v.ymd, 0) ELSE FromSql(v)

\* WHERE 1=1 [AND symbol IN (...)] [AND date >= ?] [AND date <= ?]
PanelWhere(x, syms, start_date, end_date) ==
    /\ Truthy(syms) => x["symbol"].v \in Range(syms.v)
    /\ Truthy(start_date) =>
          TextLe(IsoText(start_date.ymd), IsoText(x["date"].ymd))
    /\ Truthy(end_date) =>
          TextLe(IsoText(x["date"].ymd), IsoText(end_date.ymd))

\* The frame get_price_panel returns for table prices: the rows of the
\* SELECT in its ORDER BY, indexed by (date, symbol) unless it is empty.
PricePanel(prices, syms, start_date, end_date, columns) ==
    LET hit == {x \in prices : PanelWhere(x, syms, start_date, end_date)}
        found == Scan(hit)
        ordered == StableSort(found,
                      [p \in (DOMAIN found) \X (DOMAIN found) |->
                          OrderByDateSymbol(found[p[1]], found[p[2]])])
        cols == <<"symbol", "date">> \o columns
        rows == [i \in DOMAIN ordered |->
                    [c \in Range(cols) |->
                        IF c = "date" THEN ParseDates(ordered[i][c])
                        ELSE FromSql(ordered[i][c])]]
    IN  IF rows = <<>>
        THEN [index |-> <<>>, columns |-> cols, rows |-> rows]
        ELSE [index |-> <<"date", "symbol">>, columns |-> columns,
              rows |-> rows]

\* The record of a query: its arguments and the frame it returned.
QueryCall(op, args, out) ==
    [op |-> op, symbol |-> "", df |-> out, raised |-> FALSE, count |-> 0,
     again |-> FALSE, args |-> args]

get_price_panel(syms, start_date, end_date, columns) ==
    /\ last' = QueryCall("get_price_panel",
                  [symbols |-> syms, start_date |-> start_date,
                   end_date |-> end_date, columns |-> columns],
                  PricePanel(daily_prices, syms, start_date, end_date,
                             columns))
    /\ UNCHANGED <<tables, now>>

\* Timestamps in ascending order.
TsLe(a, b) ==
    \/ a.ymd # b.ymd /\ DateLe(a.ymd, b.ymd)
    \/ a.ymd = b.ymd /\ a.h <= b.h

\* The distinct dates of a pivot's index, ascending.
SortedDates(S) ==
    CHOOSE out \in
        {StableSort(found, [p \in (DOMAIN found) \X (DOMAIN found) |->
                               TsLe(found[p[1]], found[p[2]])]) :
            found \in {Scan(S)}} : TRUE

\* The distinct symbols of a pivot's columns, sorted.
SortedSymbols(S) ==
    CHOOSE out \in
        {StableSort(found, [p \in (DOMAIN found) \X (DOMAIN found) |->
                               SymbolOrd(found[p[1]])
                                  <= SymbolOrd(found[p[2]])]) :
            found \in {Scan(S)}} : TRUE

\* df.pivot(index='date', columns='symbol', values=column) of the rows of
\* a panel after reset_index(): one row for each distinct date, ascending,
\* one column for each distinct symbol, sorted, NaN where the panel has no
\* row of the pair; ValueError when a pair occurs twice.
Pivot(rows, column) ==
    IF \E i, j \in DOMAIN rows :
          /\ i # j
          /\ rows[i]["date"] = rows[j]["date"]
          /\ rows[i]["symbol"] = rows[j]["symbol"]
    THEN Raises
    ELSE CHOOSE out \in
        {[index |-> <<"date">>,
          columns |-> [k \in DOMAIN syms |-> syms[k].v],
          rows |-> [d \in DOMAIN dates |->
                      ("date" :> dates[d])
                      @@ [name \in {syms[k].v : k \in DOMAIN syms} |->
                            LET at == {i \in DOMAIN rows :
                                         /\ rows[i]["date"] = dates[d]
                                         /\ rows[i]["symbol"] = Text(name)}
                            IN  IF at = {} THEN NaN
                                ELSE rows[CHOOSE i \in at : TRUE][column]]]] :
            dates \in {SortedDates({rows[i]["date"] : i \in DOMAIN rows})},
            syms \in {SortedSymbols({rows[i]["symbol"] :
                                       i \in DOMAIN rows})}} : TRUE

\* The frame get_price_matrix returns for table prices: the panel itself
\* when it is empty, its pivot otherwise.
PriceMatrix(prices, column, syms, start_date, end_date) ==
    CHOOSE out \in
        {IF panel.rows = <<>> THEN panel ELSE Pivot(panel.rows, column) :
            panel \in {PricePanel(prices, syms, start_date, end_date,
                                  <<column>>)}} : TRUE

get_price_matrix(column, syms, start_date, end_date) ==
    \E out \in {PriceMatrix(daily_prices, column, syms, start_date,
                            end_date)} :
        /\ last' = [QueryCall("get_price_matrix",
                       [column |-> column, symbols |-> syms,
                        start_date |-> start_date, end_date |-> end_date],
                       out)
                    EXCEPT !.raised = (out = Raises)]
        /\ UNCHANGED <<tables, now>>

\* The columns of fundamentals_quarterly in the order SELECT * lists them.
FundStarCols ==
    <<"symbol", "year", "quarter", "report_date", "pe", "pb", "ps",
      "ev_ebitda", "roe", "roa", "gross_margin", "operating_margin",
      "net_margin", "eps", "bvps", "dividend", "revenue_growth_yoy",
      "eps_growth_yoy", "asset_turnover", "days_receivable",
      "days_inventory", "days_payable", "cash_cycle", "debt_to_equity",
      "debt_to_assets", "current_ratio", "quick_ratio", "interest_coverage",
      "accruals", "earnings_quality", "updated_at">>

\* ORDER BY symbol, year, quarter.
OrderBySymbolYearQuarter(x, y) ==
    \/ SymbolOrd(x["symbol"]) < SymbolOrd(y["symbol"])
    \/ /\ x["symbol"] = y["symbol"]
       /\ \/ x["year"].v < y["year"].v
          \/ x["year"] = y["year"] /\ x["quarter"].v <= y["quarter"].v

\* The frame get_fundamentals returns for table funds.
Fundamentals(funds, syms, years, columns) ==
    LET hit == {x \in funds :
                  /\ Truthy(syms) => x["symbol"].v \in Range(syms.v)
                  /\ Truthy(years) => x["year"].v \in Range(years.v)}
        found == Scan(hit)
        ordered == StableSort(found,
                      [p \in (DOMAIN found) \X (DOMAIN found) |->
                          OrderBySymbolYearQuarter(found[p[1]], found[p[2]])])
        cols == IF Truthy(columns)
                THEN <<"symbol", "year", "quarter">> \o columns.v
                ELSE FundStarCols
    IN  [index |-> <<>>, columns |-> cols,
         rows |-> [i \in DOMAIN ordered |->
                      [c \in Range(cols) |-> FromSql(ordered[i][c])]]]

RECURSIVE Flatten(_)
Flatten(ss) == IF ss = <<>> THEN <<>> ELSE Head(ss) \o Flatten(Tail(ss))

\* .dt.quarter of a Timestamp.
QuarterOf(ymd) == ((ymd[2] - 1) \div 3) + 1

\* The join that keeps matched rows only (how='inner').
MergeInner(left, right, fund_cols) ==
    Flatten([i \in DOMAIN left |->
        LET at == {j \in DOMAIN right :
                     /\ right[j]["symbol"] = left[i]["symbol"]
                     /\ right[j]["year"] = left[i]["year"]
                     /\ right[j]["quarter"] = left[i]["quarter"]}
        IN  [k \in 1..Cardinality(at) |->
                LET j == CHOOSE j \in at :
                            Cardinality({m \in at : m < j}) = k - 1
                IN  [c \in Range(fund_cols) |-> right[j][c]] @@ left[i]]])

\* left.merge(right, on=['symbol', 'year', 'quarter'], how='left'): every
\* left row in its order, once for each right row of its key, or once with
\* missing values when the right frame has none.
MergeLeft(left, right, fund_cols) ==
    Flatten([i \in DOMAIN left |->
        LET at == {j \in DOMAIN right :
                     /\ right[j]["symbol"] = left[i]["symbol"]
                     /\ right[j]["year"] = left[i]["year"]
                     /\ right[j]["quarter"] = left[i]["quarter"]}
        IN  IF at = {}
            THEN <<[c \in Range(fund_cols) |-> NaN] @@ left[i]>>
            ELSE [k \in 1..Cardinality(at) |->
                    LET j == CHOOSE j \in at :
                                Cardinality({m \in at : m < j}) = k - 1
                    IN  [c \in Range(fund_cols) |-> right[j][c]] @@ left[i]]])

\* sort_values(['symbol', 'date']) on the merged frame.
SortValuesLe(x, y) ==
    \/ SymbolOrd(x["symbol"]) < SymbolOrd(y["symbol"])
    \/ /\ x["symbol"] = y["symbol"]
       /\ \/ x["date"].ymd # y["date"].ymd
             /\ DateLe(x["date"].ymd, y["date"].ymd)
          \/ x["date"].ymd = y["date"].ymd /\ x["date"].h <= y["date"].h

\* A backward fill: the value of the row, or of the nearest row below it of
\* the same symbol that has one.
Bfill(rows, i, col) ==
    LET have == {j \in i..Len(rows) :
                   /\ rows[j]["symbol"] = rows[i]["symbol"]
                   /\ rows[j][col] # NaN}
    IN  IF have = {} THEN NaN
        ELSE rows[CHOOSE j \in have : \A m \in have : j <= m][col]

\* merged.groupby('symbol')[col].ffill() at row i: the value of the row, or
\* of the nearest row above it of the same symbol that has one.
Ffill(rows, i, col) ==
    LET have == {j \in 1..i :
                   /\ rows[j]["symbol"] = rows[i]["symbol"]
                   /\ rows[j][col] # NaN}
    IN  IF have = {} THEN NaN
        ELSE rows[CHOOSE j \in have : \A m \in have : m <= j][col]

\* The panel rows with the year and the quarter of their dates.
WithQuarter(rows) ==
    [i \in DOMAIN rows |->
        ("year" :> Num(rows[i]["date"].ymd[1]))
        @@ ("quarter" :> Num(QuarterOf(rows[i]["date"].ymd)))
        @@ rows[i]]

\* merged.sort_values(['symbol', 'date'])
SortValues(merged) ==
    StableSort(merged,
        [p \in (DOMAIN merged) \X (DOMAIN merged) |->
            SortValuesLe(merged[p[1]], merged[p[2]])])

\* The forward fill of every fundamental column, then
\* drop(columns=['year', 'quarter']).
FilledRows(sorted, fund_cols) ==
    [i \in DOMAIN sorted |->
        [c \in DOMAIN sorted[i] \ {"year", "quarter"} |->
            IF c \in Range(fund_cols)
            THEN Ffill(sorted, i, c) ELSE sorted[i][c]]]

\* The frame get_merged_data builds from a panel and a fundamentals frame
\* that both have rows.
MergedFrame(panel, f, price_cols, fund_cols) ==
    CHOOSE out \in
        {[index |-> <<"date", "symbol">>,
          columns |-> price_cols \o fund_cols,
          rows |-> FilledRows(sorted, fund_cols)] :
            sorted \in
              {SortValues(merged) :
                 merged \in {MergeLeft(WithQuarter(panel.rows), f.rows,
                                       fund_cols)}}} : TRUE

\* The frame get_merged_data returns for tables prices and funds.
MergedData(prices, funds, syms, start_date, end_date, price_cols, fund_cols) ==
    CHOOSE out \in
        {IF panel.rows = <<>> THEN panel
         ELSE IF f.rows = <<>> THEN panel
         ELSE MergedFrame(panel, f, price_cols, fund_cols) :
            panel \in {PricePanel(prices, syms, start_date, end_date,
                                  price_cols)},
            f \in {Fundamentals(funds, syms, NULL, List(fund_cols))}} : TRUE

get_merged_data(syms, start_date, end_date, price_cols, fund_cols) ==
    /\ last' = QueryCall("get_merged_data",
                  [symbols |-> syms, start_date |-> start_date,
                   end_date |-> end_date, columns |-> price_cols,
                   fund_cols |-> fund_cols],
                  MergedData(daily_prices, fundamentals_quarterly, syms,
                             start_date, end_date, price_cols, fund_cols))
    /\ UNCHANGED <<tables, now>>

(***************************************************************************)
(* Factor helpers.  A computed number is a fraction in lowest terms.       *)
(***************************************************************************)
RECURSIVE Gcd(_, _)
Gcd(a, b) == IF b = 0 THEN a ELSE Gcd(b, a % b)

Abs(n) == IF n < 0 THEN -n ELSE n

\* The number n / d (d > 0).
Frac(n, d) ==
    [t |-> "frac", n |-> n \div Gcd(Abs(n), d), d |-> d \div Gcd(Abs(n), d)]

\* groupby(level='date'): the rows of the group of row i.
GroupOf(rows, i) == {j \in DOMAIN rows : rows[j]["date"] = rows[i]["date"]}

\* The rows of a group that take part in the ranking of col: rank() keeps
\* missing values out (na_option='keep').
Unfiltered(rows, g, col) == g
Ranked(rows, g, col) == {j \in g : rows[j][col] # NaN}

\* Twice the rank of a value that has less smaller and eq equal values in
\* its group, itself included: the lowest position of the ties
\* (method='min'), or the mean of the positions less + 1 .. less + eq
\* (method='average', the default).
MinRank2(less, eq) == 2 * (less + 1)
AverageRank2(less, eq) == 2 * less + eq + 1

\* A rank as it stands (pct=False), or divided by the number n of ranked
\* values of the group (pct=True).
PlainRank(rank2, n) == Frac(rank2, 2)
PctRank(rank2, n) == Frac(rank2, 2 * n)

\* a < b on floats: false when either is missing (NaN).
FloatLt(a, b) == a # NaN /\ b # NaN /\ a.v < b.v

\* groupby(level='date')[col].rank(pct=True) at row i.
RankAt(rows, i, col) ==
    IF rows[i][col] = NaN THEN NaN
    ELSE LET g == Ranked(rows, GroupOf(rows, i), col)
             less == Cardinality({j \in g : FloatLt(rows[j][col], rows[i][col])})
             eq == Cardinality({j \in g : rows[j][col] = rows[i][col]})
         IN  PctRank(AverageRank2(less, eq), Cardinality(g))

\* f'{col}_rank'
RankName(col) == col \o "_rank"

\* The columns of df the loop ranks, in the order of the argument.
RankedCols(df, columns) ==
    SelectSeq(columns, LAMBDA c : c \in Range(df.columns))

\* The frame rank_cross_sectional returns; groupby(level='date') raises
\* when the index of df has no level of that name.
RankCrossSectional(df, columns) ==
    LET cols == RankedCols(df, columns)
    IN  IF cols # <<>> /\ "date" \notin Range(df.index)
        THEN Raises
        ELSE [index |-> df.index,
              columns |-> df.columns
                  \o SelectSeq([k \in DOMAIN cols |-> RankName(cols[k])],
                               LAMBDA c : c \notin Range(df.columns)),
              rows |-> [i \in DOMAIN df.rows |->
                          [c \in {RankName(cols[k]) : k \in DOMAIN cols} |->
                              RankAt(df.rows, i,
                                     cols[CHOOSE k \in DOMAIN cols :
                                            RankName(cols[k]) = c])]
                          @@ df.rows[i]]]

rank_cross_sectional(df, columns) ==
    \E out \in {RankCrossSectional(df, columns)} :
        /\ last' = [QueryCall("rank_cross_sectional",
                       [df |-> df, columns |-> columns], out)
                    EXCEPT !.raised = (out = Raises)]
        /\ UNCHANGED <<tables, now>>

(***************************************************************************)
(* compute_returns and compute_volatility on a price matrix: a frame with  *)
(* the index date and one column for each symbol (flat columns, so the     *)
(* MultiIndex branch of the functions is not taken).                       *)
(***************************************************************************)
\* Column name of a matrix as a sequence of its cells.
ColumnOf(rows, name) == [t \in DOMAIN rows |-> rows[t][name]]

\* fillna(method='pad') of one column: a missing cell takes the nearest
\* value above it.
Pad(col) ==
    [t \in DOMAIN col |->
        LET have == {u \in 1..t : col[u] # NaN}
        IN  IF have = {} THEN NaN
            ELSE col[CHOOSE u \in have : \A m \in have : m <= u]]

\* a / b without the - 1.
Ratio(a, b) == Frac(a, b)
\* a / b - 1
RatioLess1(a, b) == Frac(a - b, b)

Inf == [t |-> "inf"]

\* data / shifted - 1 for one cell; a float division by zero gives inf or,
\* for 0 / 0, NaN.
PctCell(a, b) ==
    IF a = NaN \/ b = NaN THEN NaN
    ELSE IF b.v = 0 THEN (IF a.v = 0 THEN NaN ELSE Inf)
    ELSE RatioLess1(a.v, b.v)

\* pct_change(p) of one column.  fill_method is the default of the pandas
\* build: "pad" fills missing cells first, "none" leaves them.
PctChange(col, p, fill_method) ==
    LET data == IF fill_method = "pad" THEN Pad(col) ELSE col
    IN  [t \in DOMAIN col |->
            IF t - p \in DOMAIN col THEN PctCell(data[t], data[t - p])
            ELSE NaN]

\* f'ret_{p}d' and f'vol_{w}d'
RetName(p) == "ret_" \o ToString(p) \o "d"
VolName(w) == "vol_" \o ToString(w) \o "d"

\* result = pd.DataFrame(index=prices.index) with one column for each
\* name; cell(name, t) is the value of row t.  For a matrix of one symbol
\* the column is the computed one.  For more symbols the stacked Series,
\* indexed by (date, symbol), is assigned to a frame indexed by date:
\* depending on the build the assignment raises TypeError (incompatible
\* index) or finds no label and leaves the column all NaN.
FactorFrame(prices, names, cells, reindex) ==
    IF Len(prices.columns) > 1 /\ names # <<>> /\ reindex = "raises"
    THEN Raises
    ELSE [index |-> <<"date">>,
          columns |-> names,
          rows |-> [t \in DOMAIN prices.rows |->
                      ("date" :> prices.rows[t]["date"])
                      @@ [c \in Range(names) |->
                            IF Len(prices.columns) > 1 THEN NaN
                            ELSE cells[c][t]]]]

\* The frame compute_returns returns.
ComputeReturns(prices, periods, fill_method, reindex) ==
    FactorFrame(prices,
        [k \in DOMAIN periods |-> RetName(periods[k])],
        [c \in {RetName(periods[k]) : k \in DOMAIN periods} |->
            PctChange(ColumnOf(prices.rows, prices.columns[1]),
                      periods[CHOOSE k \in DOMAIN periods :
                                 RetName(periods[k]) = c],
                      fill_method)],
        reindex)

compute_returns(prices, periods, fill_method, reindex) ==
    \E out \in {ComputeReturns(prices, periods, fill_method, reindex)} :
        /\ last' = [QueryCall("compute_returns",
                       [prices |-> prices, periods |-> periods,
                        fill_method |-> fill_method, reindex |-> reindex],
                       out)
                    EXCEPT !.raised = (out = Raises)]
        /\ UNCHANGED <<tables, now>>

\* Arithmetic of exact fractions.
FAdd(x, y) == Frac(x.n * y.d + y.n * x.d, x.d * y.d)
FSub(x, y) == Frac(x.n * y.d - y.n * x.d, x.d * y.d)
FMul(x, y) == Frac(x.n * y.n, x.d * y.d)
FOver(x, k) == Frac(x.n, x.d * k)

RECURSIVE FSum(_)
FSum(seq) == IF seq = <<>> THEN Frac(0, 1) ELSE FAdd(Head(seq), FSum(Tail(seq)))

\* Variance with the divisor w, the population variance.
PopulationVar(window, w) ==
    LET mean == FOver(FSum(window), w)
    IN  FOver(FSum([k \in DOMAIN window |->
                      FMul(FSub(window[k], mean), FSub(window[k], mean))]),
              w)
\* Variance with the divisor w - 1 (ddof = 1), the sample variance.
SampleVar(window, w) ==
    LET mean == FOver(FSum(window), w)
    IN  FOver(FSum([k \in DOMAIN window |->
                      FMul(FSub(window[k], mean), FSub(window[k], mean))]),
              w - 1)

\* The square root of a fraction, kept symbolic.
Root(x) == [t |-> "sqrt", of |-> x]

\* returns.rolling(w).std() * (252 ** 0.5) at row t of one column: NaN
\* unless the w rows ending at t all hold a number (min_periods = w) and
\* w > 1.
RollingVol(returns, t, w) ==
    IF t < w \/ w < 2 THEN NaN
    ELSE LET window == [k \in 1..w |-> returns[t - w + k]]
         IN  IF \E k \in 1..w : window[k].t # "frac" THEN NaN
             ELSE Root(FMul(SampleVar(window, w), Frac(252, 1)))

\* The frame compute_volatility returns.
ComputeVolatility(prices, windows, fill_method, reindex) ==
    FactorFrame(prices,
        [k \in DOMAIN windows |-> VolName(windows[k])],
        [c \in {VolName(windows[k]) : k \in DOMAIN windows} |->
            LET w == windows[CHOOSE k \in DOMAIN windows :
                                VolName(windows[k]) = c]
            IN  [t \in DOMAIN prices.rows |->
                    RollingVol(PctChange(ColumnOf(prices.rows,
                                                  prices.columns[1]),
                                         1, fill_method),
                               t, w)]],
        reindex)

compute_volatility(prices, windows, fill_method, reindex) ==
    \E out \in {ComputeVolatility(prices, windows, fill_method, reindex)} :
        /\ last' = [QueryCall("compute_volatility",
                       [prices |-> prices, windows |-> windows,
                        fill_method |-> fill_method, reindex |-> reindex],
                       out)
                    EXCEPT !.raised = (out = Raises)]
        /\ UNCHANGED <<tables, now>>

(***************************************************************************)
(* Inputs.                                                                 *)
(***************************************************************************)
Symbols == {"AAA", "BBB"}
D1 == <<2024, 2, 9>>
D2 == <<2024, 11, 5>>

\* Daily frames with a date and a close column: two timestamps of one day
\* and one of another day.
CleanDailyRows ==
    {("date" :> Ts(D1, 0)) @@ ("close" :> Num(1)),
     ("date" :> Ts(D1, 15)) @@ ("close" :> Num(2)),
     ("date" :> Ts(D2, 0)) @@ ("close" :> Num(1))}
CleanDailyFrames == Frames(<<"date", "close">>, CleanDailyRows, MaxRows)

DoImportDailyClean ==
    /\ \E s \in Symbols, df \in CleanDailyFrames : import_daily_prices(df, s)
    /\ UNCHANGED <<ops, conns, crawl>>

NextDaily == DoImportDailyClean
SpecDaily == Init /\ [][NextDaily]_vars

(***************************************************************************)
(* Spec: every import function, called for either symbol with a frame of   *)
(* at most one row, and the clock; at most MaxOps calls.                   *)
(***************************************************************************)
RatioFrames ==
    SingleRowFrames(<<"year", "quarter", "priceToEarning">>,
        {("year" :> Num(2024)) @@ ("quarter" :> Num(1))
            @@ ("priceToEarning" :> Num(p)) : p \in {1, 2}})
IncomeFrames ==
    SingleRowFrames(<<"year", "quarter", "revenue", "postTaxProfit">>,
        {("year" :> Num(2024)) @@ ("quarter" :> Num(1))
            @@ ("revenue" :> Num(5)) @@ ("postTaxProfit" :> Num(1))})
BalanceFrames ==
    SingleRowFrames(<<"year", "quarter", "shortDebt", "longDebt">>,
        {("year" :> Num(2024)) @@ ("quarter" :> Num(1))
            @@ ("shortDebt" :> Num(2)) @@ ("longDebt" :> Num(3))})
CashflowFrames ==
    SingleRowFrames(<<"year", "quarter", "investCost", "fromInvest">>,
        {("year" :> Num(2024)) @@ ("quarter" :> Num(1))
            @@ ("investCost" :> Num(1)) @@ ("fromInvest" :> Num(2))})
        \cup {EmptyFrame(<<"year", "quarter", "fromSale">>)}
OverviewFrames ==
    SingleRowFrames(<<"shortName", "noEmployees">>,
        {("shortName" :> Text("Alpha")) @@ ("noEmployees" :> Num(7))})
    \cup SingleRowFrames(<<"exchange">>, {("exchange" :> Text("HOSE"))})
    \cup {EmptyFrame(<<>>)}
OneDailyFrames ==
    SingleRowFrames(<<"date", "close">>,
        {("date" :> Ts(D1, 15)) @@ ("close" :> Num(1))})
        \cup {EmptyFrame(<<"date", "close">>)}

Counted == ops < MaxOps /\ ops' = ops + 1 /\ UNCHANGED <<conns, crawl>>

DoTick == Tick /\ UNCHANGED <<ops, conns, crawl>>
DoImportDaily ==
    /\ Counted
    /\ \E s \in Symbols, df \in OneDailyFrames : import_daily_prices(df, s)
DoImportRatios ==
    /\ Counted
    /\ \E s \in Symbols, df \in RatioFrames :
          import_fundamentals_from_ratios(df, s)
DoImportIncome ==
    /\ Counted
    /\ \E s \in Symbols, df \in IncomeFrames : import_income_statement(df, s)
DoImportBalance ==
    /\ Counted
    /\ \E s \in Symbols, df \in BalanceFrames : import_balance_sheet(df, s)
DoImportCashflow ==
    /\ Counted
    /\ \E s \in Symbols, df \in CashflowFrames : import_cashflow(df, s)
DoImportOverview ==
    /\ Counted
    /\ \E s \in Symbols, df \in OverviewFrames : import_overview(df, s)

Next ==
    \/ DoTick
    \/ DoImportDaily
    \/ DoImportRatios
    \/ DoImportIncome
    \/ DoImportBalance
    \/ DoImportCashflow
    \/ DoImportOverview
Spec == Init /\ [][Next]_vars

(***************************************************************************)
(* Properties of the stored daily prices.                                  *)
(***************************************************************************)
IsCall(op) == last.op = op /\ ~last.raised

\* The last row of frame df whose date falls on the same day as row i.
IsLatestOfDay(df, i) ==
    \A j \in DOMAIN df.rows :
        j > i => ToDatetime(df.rows[j]["date"]).ymd
                    # ToDatetime(df.rows[i]["date"]).ymd

\* The stored rows of one symbol and one 'YYYY-MM-DD' day.
DailyRowsOf(symbol, ymd) ==
    {x \in daily_prices : x["symbol"] = Text(symbol) /\ x["date"] = Iso(ymd)}

\* C1: daily_prices holds at most one row per (symbol, date), and after an
\* import_daily_prices call that row carries, for every date of the batch,
\* the values of the last record the batch holds for that date.
C1_OneRowPerKeyLatestWins ==
    /\ \A x, y \in daily_prices :
          (x["symbol"] = y["symbol"] /\ x["date"] = y["date"]) => x = y
    /\ IsCall("import_daily_prices") =>
          \A i \in DOMAIN last.df.rows :
             IsLatestOfDay(last.df, i) =>
                LET r == last.df.rows[i]
                    kept == DailyRowsOf(last.symbol, ToDatetime(r["date"]).ymd)
                IN  /\ Cardinality(kept) = 1
                    /\ \A x \in kept : x["close"] = r["close"]

\* A batch that names one date twice with different prices was imported
\* over a stored row of that key, and the other symbol has rows too.
C1_Witness ==
    /\ IsCall("import_daily_prices")
    /\ Len(last.df.rows) = 2
    /\ ToDatetime(last.df.rows[1]["date"]).ymd
          = ToDatetime(last.df.rows[2]["date"]).ymd
    /\ last.df.rows[1]["close"] # last.df.rows[2]["close"]
    /\ last.df.rows[1]["date"] # last.df.rows[2]["date"]
    /\ last.again
    /\ \E x \in daily_prices : x["symbol"] # Text(last.symbol)

(***************************************************************************)
(* Properties of the imports as a whole (specification Spec).              *)
(***************************************************************************)
ImportOps ==
    {"import_daily_prices", "import_fundamentals_from_ratios",
     "import_income_statement", "import_balance_sheet", "import_cashflow"}

\* The rows of a table without the updated_at stamp, which is no field of
\* the records the imports are given.
Data(tbl) == {[c \in DOMAIN x \ {"updated_at"} |-> x[c]] : x \in tbl}

SameData(old, new) ==
    Cardinality(new) = Cardinality(old) /\ Data(new) = Data(old)

\* C2: a call that repeats the call before it (the same daily or statement
\* batch for the same symbol, imported a second time, at the same or a
\* later time) leaves every table with the same number of rows and the same
\* field values per key as the first import left them.
C2_ReimportIdempotent ==
    [][(last'.again /\ last'.op \in ImportOps) =>
          /\ symbols' = symbols
          /\ SameData(daily_prices, daily_prices')
          /\ SameData(fundamentals_quarterly, fundamentals_quarterly')
          /\ SameData(income_statement, income_statement')
          /\ SameData(balance_sheet, balance_sheet')
          /\ SameData(cashflow, cashflow')]_vars

\* A ratios batch has been imported a second time, after the clock moved.
C2_Witness ==
    /\ last.again
    /\ IsCall("import_fundamentals_from_ratios")
    /\ last.count = 1
    /\ now > 0
    /\ \E x \in fundamentals_quarterly :
          x["symbol"] = Text(last.symbol) /\ x["updated_at"] = Num(now)
    /\ \E x \in symbols :
          x["symbol"] = Text(last.symbol) /\ x["updated_at"] = Num(0)

\* The attributes of the symbols table an overview record supplies.
Supplied(df, c) ==
    /\ c \in DOMAIN OverviewKeys
    /\ HasCol(df, OverviewKeys[c])
    /\ df.rows[1][OverviewKeys[c]] # NaN

\* C3: an overview import for a symbol that has a record overwrites the
\* attributes the overview supplies and leaves every other attribute of
\* the record as it was.
C3_OverviewPartialUpdate ==
    [][(last'.op = "import_overview" /\ last'.count = 1 /\ ops' # ops) =>
          \A x \in symbols :
             x["symbol"] = Text(last'.symbol) =>
                \E y \in symbols' :
                   /\ y["symbol"] = x["symbol"]
                   /\ \A c \in SymbolCols \ {"symbol", "updated_at"} :
                         IF Supplied(last'.df, c)
                         THEN y[c] = last'.df.rows[1][OverviewKeys[c]]
                         ELSE y[c] = x[c]]_vars

\* Every row of the data tables belongs to a symbol of the symbols table.
Referential(syms, tbl) ==
    \A x \in tbl : \E y \in syms : y["symbol"] = x["symbol"]

\* C4: every row of daily_prices and of the statement tables refers to a
\* symbol that has a record; a price or statement import that returns
\* creates a bare record for a symbol that had none and leaves the record
\* of a symbol that had one unchanged.
C4_SymbolEnsured ==
    [][(last'.op \in ImportOps /\ ~last'.raised /\ ops' # ops) =>
          /\ Referential(symbols', daily_prices')
          /\ Referential(symbols', fundamentals_quarterly')
          /\ Referential(symbols', income_statement')
          /\ Referential(symbols', balance_sheet')
          /\ Referential(symbols', cashflow')
          /\ IF \E x \in symbols : x["symbol"] = Text(last'.symbol)
             THEN \A x \in symbols :
                     x["symbol"] = Text(last'.symbol) => x \in symbols'
             ELSE \E y \in symbols' :
                     /\ y["symbol"] = Text(last'.symbol)
                     /\ \A c \in SymbolCols \ {"symbol", "updated_at"} :
                           y[c] = NULL]_vars

\* C5: a symbol that has a record in the symbols table has one in every
\* later state, whichever import runs.
C5_SymbolsNeverShrink ==
    [][\A x \in symbols : \E y \in symbols' : y["symbol"] = x["symbol"]]_vars

\* An overview was imported over the existing record of a symbol (it is the
\* second overview import for it) while the other symbol has a record too.
C5_Witness ==
    /\ IsCall("import_overview")
    /\ last.count = 1
    /\ last.again
    /\ Cardinality(symbols) = 2
    /\ \E x \in daily_prices : x["symbol"] # Text(last.symbol)

(***************************************************************************)
(* SpecDirty: daily and ratios batches whose rows may lack the key or      *)
(* carry malformed text, imported for one symbol.                          *)
(***************************************************************************)
\* A clean row, a row without a date (None / NaT), a row whose date is text
\* pd.to_datetime cannot parse, and a row whose close is no number.
DirtyDailyRows ==
    {("date" :> Ts(D1, 0)) @@ ("close" :> Num(1)),
     ("date" :> NaN) @@ ("close" :> Num(1)),
     ("date" :> Text("32/13/2024")) @@ ("close" :> Num(1)),
     ("date" :> Ts(D2, 0)) @@ ("close" :> Text("abc"))}
DirtyDailyFrames == Frames(<<"date", "close">>, DirtyDailyRows, MaxRows)

DirtyRatioRows ==
    {("year" :> y) @@ ("quarter" :> Num(1)) @@ ("priceToEarning" :> Num(1)) :
        y \in {Num(2024), NaN}}
DirtyRatioFrames ==
    Frames(<<"year", "quarter", "priceToEarning">>, DirtyRatioRows, MaxRows)

DoImportDailyDirty ==
    /\ \E df \in DirtyDailyFrames : import_daily_prices(df, "AAA")
    /\ UNCHANGED <<ops, conns, crawl>>
DoImportRatiosDirty ==
    /\ \E df \in DirtyRatioFrames : import_fundamentals_from_ratios(df, "AAA")
    /\ UNCHANGED <<ops, conns, crawl>>

NextDirty == DoImportDailyDirty \/ DoImportRatiosDirty
SpecDirty == Init /\ [][NextDirty]_vars

\* Whether raw row r of a batch for function op carries a primary key that
\* can be parsed: a date, or a year and a quarter.
KeyParseable(op, r) ==
    IF op = "import_daily_prices"
    THEN "date" \in DOMAIN r /\ ToDatetime(r["date"]) \notin {NaN, Raises}
    ELSE /\ "year" \in DOMAIN r /\ r["year"].t = "num"
         /\ "quarter" \in DOMAIN r /\ r["quarter"].t = "num"

\* The stored row raw row r of the last call should have produced.
StoredFor(r) ==
    IF last.op = "import_daily_prices"
    THEN {x \in daily_prices :
            /\ x["symbol"] = Text(last.symbol)
            /\ x["date"] = StrfTime(ToDatetime(r["date"]))}
    ELSE {x \in fundamentals_quarterly :
            /\ x["symbol"] = Text(last.symbol)
            /\ x["year"] = r["year"] /\ x["quarter"] = r["quarter"]}

\* C6: a daily or ratios import of n rows of which k lack a parseable key
\* raises no exception, writes the other n-k rows and reports n-k written
\* (and so k skipped).
C6_PartialBatch ==
    last.op \in {"import_daily_prices", "import_fundamentals_from_ratios"} =>
        LET good == {i \in DOMAIN last.df.rows :
                        KeyParseable(last.op, last.df.rows[i])}
        IN  /\ ~last.raised
            /\ last.count = Cardinality(good)
            /\ \A i \in good : StoredFor(last.df.rows[i]) # {}

\* C7: no numeric column of daily_prices holds text, and a daily batch in
\* which every row has a date value (well-formed or not) is imported
\* without raising, every row being written.
C7_MalformedBecomesNull ==
    /\ \A x \in daily_prices :
          \A c \in DailyCols \ {"symbol", "date"} : x[c].t # "text"
    /\ (/\ last.op = "import_daily_prices"
        /\ \A i \in DOMAIN last.df.rows : last.df.rows[i]["date"] # NaN)
          => ~last.raised /\ last.count = Len(last.df.rows)

(***************************************************************************)
(* SpecQuery: at most MaxOps imports of one-row daily and ratios batches,  *)
(* and the queries get_price_panel and get_merged_data on the store they   *)
(* leave.                                                                  *)
(***************************************************************************)
QueryDailyFrames ==
    SingleRowFrames(<<"date", "close">>,
        {("date" :> Ts(d, 0)) @@ ("close" :> Num(1)) : d \in {D1, D2}})
QueryRatioFrames ==
    SingleRowFrames(<<"year", "quarter", "priceToEarning">>,
        {("year" :> Num(2024)) @@ ("quarter" :> Num(1))
            @@ ("priceToEarning" :> Num(1))})

\* symbols: None, [], a stored symbol, a symbol the store does not hold.
SymbolArgs == {NULL, List(<<>>), List(<<"AAA">>), List(<<"ZZZ">>)}
StartArgs == {NULL, Iso(D2)}
EndArgs == {NULL, Iso(D1)}

DoQueryImportDaily ==
    /\ Counted
    /\ \E s \in Symbols, df \in QueryDailyFrames : import_daily_prices(df, s)
DoQueryImportRatios ==
    /\ Counted
    /\ \E s \in Symbols, df \in QueryRatioFrames :
          import_fundamentals_from_ratios(df, s)
DoGetPricePanel ==
    /\ \E syms \in SymbolArgs, sd \in StartArgs, ed \in EndArgs :
          get_price_panel(syms, sd, ed, <<"close">>)
    /\ UNCHANGED <<ops, conns, crawl>>
DoGetMergedData ==
    /\ \E syms \in {NULL, List(<<"AAA">>)}, sd \in StartArgs :
          get_merged_data(syms, sd, NULL, <<"close">>, <<"pe">>)
    /\ UNCHANGED <<ops, conns, crawl>>

DoGetPriceMatrix ==
    /\ \E syms \in SymbolArgs, sd \in StartArgs :
          get_price_matrix("close", syms, sd, NULL)
    /\ UNCHANGED <<ops, conns, crawl>>

NextQuery ==
    \/ DoQueryImportDaily
    \/ DoQueryImportRatios
    \/ DoGetPricePanel
    \/ DoGetMergedData
    \/ DoGetPriceMatrix
SpecQuery == Init /\ [][NextQuery]_vars

\* Row x of a returned frame stands strictly before row y in the order
\* (date, symbol).
KeyBefore(x, y) ==
    \/ x["date"].ymd # y["date"].ymd /\ DateLe(x["date"].ymd, y["date"].ymd)
    \/ /\ x["date"].ymd = y["date"].ymd
       /\ SymbolOrd(x["symbol"]) < SymbolOrd(y["symbol"])

\* C8: the rows get_price_panel returns are strictly ascending by
\* (date, symbol), so no pair occurs twice and the dates of one symbol
\* strictly increase.
C8_PanelSortedUnique ==
    IsCall("get_price_panel") =>
        \A i, j \in DOMAIN last.df.rows :
            i < j => KeyBefore(last.df.rows[i], last.df.rows[j])

\* A panel of three rows in which the later date belongs to the symbol that
\* sorts first and one date is shared by both symbols.
C8_Witness ==
    /\ IsCall("get_price_panel")
    /\ Len(last.df.rows) = 3
    /\ last.df.rows[1]["symbol"] = Text("BBB")
    /\ last.df.rows[2]["symbol"] = Text("AAA")
    /\ last.df.rows[3]["symbol"] = Text("BBB")
    /\ last.df.rows[1]["date"] = Ts(D1, 0)
    /\ last.df.rows[2]["date"] = last.df.rows[3]["date"]

\* The stored daily rows the filters of a query select: a filter that is
\* None selects every row, the bounds are inclusive.
Selected(args) ==
    {x \in daily_prices :
        /\ args.symbols # NULL => x["symbol"].v \in Range(args.symbols.v)
        /\ args.start_date # NULL =>
              DateLe(args.start_date.ymd, x["date"].ymd)
        /\ args.end_date # NULL => DateLe(x["date"].ymd, args.end_date.ymd)}

\* C9: get_price_panel returns exactly the stored rows whose symbol is in
\* the symbols filter and whose date lies in [start, end], an absent filter
\* placing no restriction; a filter that matches nothing gives an empty
\* frame.
C9_PanelExactlyFiltered ==
    IsCall("get_price_panel") =>
        LET want == Selected(last.args)
            got == Range(last.df.rows)
        IN  /\ Len(last.df.rows) = Cardinality(want)
            /\ \A x \in want :
                  \E r \in got :
                     /\ r["symbol"] = x["symbol"]
                     /\ r["date"].ymd = x["date"].ymd
                     /\ \A c \in Range(last.args.columns) :
                           r[c] = FromSql(x[c])

\* The (date, symbol) keys of the rows of a frame, in row order.
KeysOf(df) ==
    [i \in DOMAIN df.rows |-> <<df.rows[i]["date"], df.rows[i]["symbol"]>>]

\* C10: the rows of get_merged_data stand in the order of the price panel
\* the call was built from, ascending by (date, symbol).
C10_MergedKeepsPanelOrder ==
    IsCall("get_merged_data") =>
        /\ KeysOf(last.df) =
              KeysOf(PricePanel(daily_prices, last.args.symbols,
                                last.args.start_date, last.args.end_date,
                                last.args.columns))
        /\ \A i, j \in DOMAIN last.df.rows :
              i < j => KeyBefore(last.df.rows[i], last.df.rows[j])

(***************************************************************************)
(* SpecMerge: at most MaxOps imports of daily batches dated in the first   *)
(* three quarters of 2024 and of ratios batches for those quarters, and    *)
(* get_merged_data on the store they leave.                                *)
(***************************************************************************)
E1 == <<2024, 3, 31>>
E2 == <<2024, 6, 30>>
E3 == <<2024, 9, 30>>

\* Daily batches: the ends of Q1 and Q2, of Q2 and Q3, of Q2 alone.
MergeDailyFrames ==
    {[columns |-> <<"date", "close">>,
      rows |-> [i \in DOMAIN ds |->
                  ("date" :> Ts(ds[i], 0)) @@ ("close" :> Num(1))]] :
        ds \in {<<E1, E2>>, <<E2, E3>>, <<E2>>}}

\* The price-to-earnings figure reported for a symbol and a quarter: one
\* number for each pair.
PeOf(symbol, q) == Num(10 * SymbolOrd(Text(symbol)) + q)

RatioRow(q, pe) ==
    ("year" :> Num(2024)) @@ ("quarter" :> Num(q))
        @@ ("priceToEarning" :> pe)

\* Ratios batches of a symbol: Q1 and Q3; Q1 and a Q2 record without the
\* figure; Q3 alone; Q2 alone.
MergeRatioFrames(symbol) ==
    {[columns |-> <<"year", "quarter", "priceToEarning">>, rows |-> rs] :
        rs \in {<<RatioRow(1, PeOf(symbol, 1)), RatioRow(3, PeOf(symbol, 3))>>,
                <<RatioRow(1, PeOf(symbol, 1)), RatioRow(2, NaN)>>,
                <<RatioRow(3, PeOf(symbol, 3))>>,
                <<RatioRow(2, PeOf(symbol, 2))>>}}

DoMergeImportDaily ==
    /\ Counted
    /\ \E s \in Symbols, df \in MergeDailyFrames : import_daily_prices(df, s)
DoMergeImportRatios ==
    /\ Counted
    /\ \E s \in Symbols :
          \E df \in MergeRatioFrames(s) :
             import_fundamentals_from_ratios(df, s)
DoMergeQuery ==
    /\ \E syms \in {NULL, List(<<"AAA">>)}, sd \in {NULL, Iso(E2)} :
          get_merged_data(syms, sd, NULL, <<"close">>, <<"pe">>)
    /\ UNCHANGED <<ops, conns, crawl>>

NextMerge ==
    \/ DoMergeImportDaily
    \/ DoMergeImportRatios
    \/ DoMergeQuery
SpecMerge == Init /\ [][NextMerge]_vars

\* The calendar quarter of a day: ceil(month / 3).
CalendarQuarter(ymd) == (ymd[2] + 2) \div 3

\* Quarter (y1, q1) is equal to or earlier than quarter (y2, q2).
QuarterLe(y1, q1, y2, q2) == y1 < y2 \/ (y1 = y2 /\ q1 <= q2)

\* The stored fundamental records of a symbol value and a quarter.
FundRecords(sym, y, q) ==
    {f \in fundamentals_quarterly :
        f["symbol"] = sym /\ f["year"] = Num(y) /\ f["quarter"] = Num(q)}

\* C11: every non-null fundamental value of a row of get_merged_data is the
\* value of a stored record of the same symbol whose (year, quarter) is
\* equal to or earlier than the calendar quarter of the row's date.
C11_NoLookahead ==
    IsCall("get_merged_data") =>
        \A i \in DOMAIN last.df.rows :
            LET r == last.df.rows[i]
            IN  \A c \in Range(last.args.fund_cols) :
                   (c \in DOMAIN r /\ r[c] # NaN) =>
                      \E f \in fundamentals_quarterly :
                         /\ f["symbol"] = r["symbol"]
                         /\ f[c] = r[c]
                         /\ QuarterLe(f["year"].v, f["quarter"].v,
                                      r["date"].ymd[1],
                                      CalendarQuarter(r["date"].ymd))

\* A Q2 row of AAA carries the Q1 figure of AAA while a Q3 record of AAA
\* and records of BBB are stored.
C11_Witness ==
    /\ IsCall("get_merged_data")
    /\ \E i \in DOMAIN last.df.rows :
          /\ last.df.rows[i]["symbol"] = Text("AAA")
          /\ last.df.rows[i]["date"] = Ts(E2, 0)
          /\ "pe" \in DOMAIN last.df.rows[i]
          /\ last.df.rows[i]["pe"] = PeOf("AAA", 1)
    /\ FundRecords(Text("AAA"), 2024, 3) # {}
    /\ FundRecords(Text("AAA"), 2024, 2) = {}
    /\ \E f \in fundamentals_quarterly : f["symbol"] = Text("BBB")

\* C12: when a symbol has fundamental records for Q1 and Q3 of a year and
\* none for Q2, every row of get_merged_data of that symbol dated in Q2
\* carries the Q1 values, whatever date range was requested.
C12_GapQuarterGetsQ1 ==
    IsCall("get_merged_data") =>
        \A i \in DOMAIN last.df.rows :
            LET r == last.df.rows[i]
                y == r["date"].ymd[1]
            IN  (/\ CalendarQuarter(r["date"].ymd) = 2
                 /\ FundRecords(r["symbol"], y, 1) # {}
                 /\ FundRecords(r["symbol"], y, 2) = {}
                 /\ FundRecords(r["symbol"], y, 3) # {}) =>
                    \A c \in Range(last.args.fund_cols) :
                       /\ c \in DOMAIN r
                       /\ \A f \in FundRecords(r["symbol"], y, 1) :
                             r[c] = FromSql(f[c])

\* C13: a row of get_merged_data of symbol s dated in month m of year y
\* carries, in every requested fundamental column, the value of the stored
\* record (s, y, ceil(m/3)) when that record exists.
C13_JoinedOnCalendarQuarter ==
    IsCall("get_merged_data") =>
        \A i \in DOMAIN last.df.rows :
            LET r == last.df.rows[i]
            IN  \A f \in FundRecords(r["symbol"], r["date"].ymd[1],
                                     CalendarQuarter(r["date"].ymd)) :
                   \A c \in Range(last.args.fund_cols) :
                      c \in DOMAIN r /\ r[c] = FromSql(f[c])

\* C14: get_price_matrix returns a grid with one row for each distinct date
\* of the filtered panel, ascending, and one column for each distinct
\* symbol, in lexicographic order; cell (d, s) is the panel value of the
\* pair, or the missing marker when the panel has no such row.
C14_MatrixIsPivotOfPanel ==
    IsCall("get_price_matrix") =>
        LET panel == PricePanel(daily_prices, last.args.symbols,
                                last.args.start_date, last.args.end_date,
                                <<last.args.column>>)
            dates == {panel.rows[i]["date"] : i \in DOMAIN panel.rows}
            names == {panel.rows[i]["symbol"].v : i \in DOMAIN panel.rows}
            m == last.df
        IN  /\ Len(m.rows) = Cardinality(dates)
            /\ {m.rows[i]["date"] : i \in DOMAIN m.rows} = dates
            /\ \A i, j \in DOMAIN m.rows :
                  i < j => /\ TsLe(m.rows[i]["date"], m.rows[j]["date"])
                           /\ m.rows[i]["date"] # m.rows[j]["date"]
            /\ Len(m.columns) = Cardinality(names)
            /\ Range(m.columns) = names
            /\ \A i, j \in DOMAIN m.columns :
                  i < j => SymbolOrd(Text(m.columns[i]))
                              < SymbolOrd(Text(m.columns[j]))
            /\ \A i \in DOMAIN m.rows :
                  \A name \in names :
                     LET at == {k \in DOMAIN panel.rows :
                                  /\ panel.rows[k]["date"] = m.rows[i]["date"]
                                  /\ panel.rows[k]["symbol"] = Text(name)}
                     IN  IF at = {} THEN m.rows[i][name] = NaN
                         ELSE \A k \in at :
                                 m.rows[i][name]
                                    = panel.rows[k][last.args.column]

(***************************************************************************)
(* SpecRank: one call of rank_cross_sectional on a panel of up to three    *)
(* symbols on one date and two on another, with a factor column x whose    *)
(* cells are 1, 2, 3 or missing.                                           *)
(***************************************************************************)
RankKeys == <<<<D1, "AAA">>, <<D1, "BBB">>, <<D1, "ZZZ">>,
              <<D2, "AAA">>, <<D2, "BBB">>>>
Absent == [t |-> "absent"]
RankCells == {Absent, Num(1), Num(2), Num(3), NaN}

\* The panel whose row for key k holds cells[k] in x, without the rows of
\* the absent keys.
RankFrame(cells) ==
    LET present == {k \in DOMAIN RankKeys : cells[k] # Absent}
        At(n) == CHOOSE k \in present :
                    Cardinality({m \in present : m < k}) = n - 1
    IN  [index |-> <<"date", "symbol">>,
         columns |-> <<"close", "x">>,
         rows |-> [n \in 1..Cardinality(present) |->
                     [date |-> Ts(RankKeys[At(n)][1], 0),
                      symbol |-> Text(RankKeys[At(n)][2]),
                      close |-> Num(1),
                      x |-> cells[At(n)]]]]

\* The panels, and the frame an empty get_price_panel returns.
RankFrames ==
    {RankFrame(cells) : cells \in [DOMAIN RankKeys -> RankCells]}
        \cup {[index |-> <<>>, columns |-> <<"symbol", "date", "close">>,
               rows |-> <<>>]}

DoRank ==
    /\ last = NoCall
    /\ \E df \in RankFrames, columns \in {<<"x">>, <<"pe", "x">>, <<"close">>} :
          rank_cross_sectional(df, columns)
    /\ UNCHANGED <<ops, conns, crawl>>

NextRank == DoRank
SpecRank == Init /\ [][NextRank]_vars

\* The rows of the argument frame of the last call on the date of row i.
SameDate(i) ==
    {j \in DOMAIN last.args.df.rows :
        last.args.df.rows[j]["date"] = last.args.df.rows[i]["date"]}

\* The rank row i of the result holds for column x.
XRank(i) == last.df.rows[i]["x_rank"]

\* The last call ranked column x of its frame.
RankedX ==
    /\ IsCall("rank_cross_sectional")
    /\ "x" \in Range(last.args.columns)
    /\ "x" \in Range(last.args.df.columns)

\* C15: every rank written lies in (0, 1], and on a date whose N rows hold
\* N distinct values the ranks are exactly 1/N, 2/N, ..., N/N.
C15_RankBounds ==
    RankedX =>
        \A i \in DOMAIN last.df.rows :
            /\ XRank(i) # NaN =>
                  0 < XRank(i).n /\ XRank(i).n <= XRank(i).d
            /\ (\A j, k \in SameDate(i) :
                   /\ last.args.df.rows[j]["x"] # NaN
                   /\ j # k => last.args.df.rows[j]["x"]
                                  # last.args.df.rows[k]["x"]) =>
                  {XRank(j) : j \in SameDate(i)}
                     = {Frac(k, Cardinality(SameDate(i))) :
                          k \in 1..Cardinality(SameDate(i))}

\* Three distinct values on one date, one value alone on the other.
C15_Witness ==
    /\ RankedX
    /\ Len(last.df.rows) = 4
    /\ {XRank(i) : i \in 1..3} = {Frac(1, 3), Frac(2, 3), Frac(1, 1)}
    /\ XRank(4) = Frac(1, 1)
    /\ last.df.rows[1]["x"] = Num(3)

\* The rows of the date of row i that hold a value.
Valued(i) == {j \in SameDate(i) : last.args.df.rows[j]["x"] # NaN}

\* The positions the value of row i occupies when the values of its date
\* are put in ascending order.
Positions(i) ==
    LET x == last.args.df.rows[i]["x"].v
        below == Cardinality({j \in Valued(i) :
                                last.args.df.rows[j]["x"].v < x})
        same == Cardinality({j \in Valued(i) :
                               last.args.df.rows[j]["x"].v = x})
    IN  (below + 1)..(below + same)

RECURSIVE Sum(_)
Sum(S) == IF S = {} THEN 0
          ELSE LET x == CHOOSE x \in S : TRUE IN x + Sum(S \ {x})

\* C16: rows of one date with equal values get the same rank, the mean of
\* the positions they occupy among the values of that date divided by the
\* number of those values; rows of other dates play no part.
C16_TiesGetMeanRank ==
    RankedX =>
        \A i \in DOMAIN last.df.rows :
            last.args.df.rows[i]["x"] # NaN =>
                XRank(i) = Frac(Sum(Positions(i)),
                                Cardinality(Positions(i))
                                   * Cardinality(Valued(i)))

\* Two rows tie below a third on one date while the other date has rows.
C16_Witness ==
    /\ RankedX
    /\ Len(last.df.rows) = 5
    /\ last.df.rows[1]["x"] = last.df.rows[3]["x"]
    /\ last.df.rows[2]["x"] = Num(3)
    /\ XRank(1) = Frac(1, 2)
    /\ XRank(3) = Frac(1, 2)
    /\ XRank(2) = Frac(1, 1)

\* The argument frame of the last call without the rows whose x is missing.
Dropna(rows) == SelectSeq(rows, LAMBDA r : r["x"] # NaN)

\* C17: a row with a missing value gets a missing rank and the others rank
\* as if that row were not there; every column of the input comes back
\* with its values, next to the new x_rank column.
C17_NullsKeptOut ==
    RankedX =>
        /\ \A i \in DOMAIN last.df.rows :
              /\ last.args.df.rows[i]["x"] = NaN => XRank(i) = NaN
              /\ \A c \in Range(last.args.df.columns) :
                    last.df.rows[i][c] = last.args.df.rows[i][c]
        /\ Len(last.df.rows) = Len(last.args.df.rows)
        /\ last.df.columns = last.args.df.columns \o <<"x_rank">>
        /\ LET kept == Dropna(last.args.df.rows)
               alone == RankCrossSectional(
                           [last.args.df EXCEPT !.rows = kept], <<"x">>)
           IN  Dropna(last.df.rows) = alone.rows

\* A date with a missing value between two values, ranked 1/2 and 1.
C17_Witness ==
    /\ RankedX
    /\ Len(last.df.rows) = 3
    /\ last.df.rows[2]["x"] = NaN
    /\ XRank(2) = NaN
    /\ XRank(1) = Frac(1, 1)
    /\ XRank(3) = Frac(1, 2)
    /\ last.df.rows[3]["date"] = last.df.rows[1]["date"]

(***************************************************************************)
(* SpecFactor: one call of compute_returns or compute_volatility on a      *)
(* price matrix of one or two symbols.                                     *)
(***************************************************************************)
MatrixDate(t) == Ts(<<2024, 1, t + 1>>, 0)

\* The price matrices of the symbols syms with n dates and cells from the
\* set cells.
Matrices(syms, cells, n) ==
    {[index |-> <<"date">>,
      columns |-> syms,
      rows |-> [t \in 1..n |-> ("date" :> MatrixDate(t)) @@ body[t]]] :
        body \in [1..n -> [Range(syms) -> cells]]}

ReturnCells == {Num(100), Num(110), Num(121), NaN}
VolCells == {Num(1), Num(2), Num(4), NaN}
PairCells == {Num(1), Num(2), NaN}

OneSymbolReturnMatrices ==
    UNION {Matrices(<<"AAA">>, ReturnCells, n) : n \in 1..MaxDates}
OneSymbolVolMatrices ==
    UNION {Matrices(<<"AAA">>, VolCells, n) : n \in 1..MaxDates}
TwoSymbolMatrices ==
    UNION {Matrices(<<"AAA", "BBB">>, PairCells, n) : n \in 1..(MaxDates - 1)}

PeriodArgs == {<<1>>, <<2>>, <<1, 2>>}
WindowArgs == {<<2>>, <<2, 3>>}
FillMethods == {"pad", "none"}
Reindexings == {"raises", "nan"}

DoComputeReturns ==
    /\ last = NoCall
    /\ \E prices \in OneSymbolReturnMatrices \cup TwoSymbolMatrices,
          periods \in PeriodArgs, fill_method \in FillMethods,
          reindex \in Reindexings :
          compute_returns(prices, periods, fill_method, reindex)
    /\ UNCHANGED <<ops, conns, crawl>>

DoComputeVolatility ==
    /\ last = NoCall
    /\ \E prices \in OneSymbolVolMatrices \cup TwoSymbolMatrices,
          windows \in WindowArgs, fill_method \in FillMethods,
          reindex \in Reindexings :
          compute_volatility(prices, windows, fill_method, reindex)
    /\ UNCHANGED <<ops, conns, crawl>>

NextFactor == DoComputeReturns \/ DoComputeVolatility
SpecFactor == Init /\ [][NextFactor]_vars

\* The prices of symbol s in the matrix of the last call.
PricesOf(s) == ColumnOf(last.args.prices.rows, s)
\* value[t] / value[t - P] - 1 of a price column.
ReturnOf(value, t, P) == Frac(value[t].v - value[t - P].v, value[t - P].v)
Present(value, t) == t \in DOMAIN value /\ value[t] # NaN

\* C18: for a price matrix of one symbol and each period P, compute_returns
\* yields one row for each date, whose ret_Pd is null in the first P rows
\* and value[t] / value[t-P] - 1 in every later row whose two prices are
\* there; closes 100, 110, 121 with P = 1 give null, 1/10, 1/10.
C18_SingleSymbolReturns ==
    (last.op = "compute_returns" /\ Len(last.args.prices.columns) = 1) =>
        /\ ~last.raised
        /\ last.df.index = <<"date">>
        /\ Len(last.df.rows) = Len(last.args.prices.rows)
        /\ \A k \in DOMAIN last.args.periods, t \in DOMAIN last.df.rows :
              LET P == last.args.periods[k]
                  value == PricesOf(last.args.prices.columns[1])
                  got == last.df.rows[t][RetName(P)]
              IN  /\ last.df.rows[t]["date"] = last.args.prices.rows[t]["date"]
                  /\ t <= P => got = NaN
                  /\ (t > P /\ Present(value, t) /\ Present(value, t - P))
                        => got = ReturnOf(value, t, P)
        /\ (/\ PricesOf("AAA") = <<Num(100), Num(110), Num(121)>>
            /\ last.args.periods = <<1>>)
              => ColumnOf(last.df.rows, "ret_1d")
                    = <<NaN, Frac(1, 10), Frac(1, 10)>>

C18_Witness ==
    /\ IsCall("compute_returns")
    /\ last.args.prices.columns = <<"AAA">>
    /\ PricesOf("AAA") = <<Num(100), Num(110), Num(121)>>
    /\ last.args.periods = <<1, 2>>
    /\ ColumnOf(last.df.rows, "ret_1d") = <<NaN, Frac(1, 10), Frac(1, 10)>>
    /\ ColumnOf(last.df.rows, "ret_2d") = <<NaN, NaN, Frac(21, 100)>>

\* The rows of the last result that belong to date t of the matrix and to
\* symbol s: a row without a symbol belongs to every symbol of its date.
RowsOf(t, s) ==
    {i \in DOMAIN last.df.rows :
        /\ last.df.rows[i]["date"] = last.args.prices.rows[t]["date"]
        /\ "symbol" \in DOMAIN last.df.rows[i]
              => last.df.rows[i]["symbol"] = Text(s)}

\* C19: when the matrix given to compute_returns has more than one symbol
\* column, the result is in long form: it has exactly one row for each
\* (date, symbol) pair, and the ret_Pd of that row is null for the
\* symbol's first P dates and its value[t] / value[t-P] - 1 afterwards.
C19_LongFormReturns ==
    (last.op = "compute_returns" /\ Len(last.args.prices.columns) > 1) =>
        /\ ~last.raised
        /\ last.df.index = <<"date", "symbol">>
        /\ Len(last.df.rows)
              = Len(last.args.prices.rows) * Len(last.args.prices.columns)
        /\ \A t \in DOMAIN last.args.prices.rows,
              s \in Range(last.args.prices.columns) :
              /\ Cardinality(RowsOf(t, s)) = 1
              /\ \A i \in RowsOf(t, s), k \in DOMAIN last.args.periods :
                    LET P == last.args.periods[k]
                        value == PricesOf(s)
                        got == last.df.rows[i][RetName(P)]
                    IN  /\ "symbol" \in DOMAIN last.df.rows[i]
                        /\ t <= P => got = NaN
                        /\ (t > P /\ Present(value, t)
                                  /\ Present(value, t - P))
                              => got = ReturnOf(value, t, P)

\* The single-period returns of a price column.
Returns1(value) ==
    [t \in DOMAIN value |->
        IF Present(value, t) /\ Present(value, t - 1)
        THEN ReturnOf(value, t, 1) ELSE NaN]

\* C20: for each window W and each symbol, compute_volatility yields a
\* value that is null in the first W - 1 rows and, in every row that has W
\* single-period returns behind it, the sample standard deviation of the W
\* most recent returns times the square root of 252.
C20_RollingVolatility ==
    last.op = "compute_volatility" =>
        /\ ~last.raised
        /\ \A t \in DOMAIN last.args.prices.rows,
              s \in Range(last.args.prices.columns) :
              /\ RowsOf(t, s) # {}
              /\ \A i \in RowsOf(t, s), k \in DOMAIN last.args.windows :
                    LET W == last.args.windows[k]
                        ret == Returns1(PricesOf(s))
                        got == last.df.rows[i][VolName(W)]
                    IN  /\ t <= W - 1 => got = NaN
                        /\ (t > W /\ \A u \in (t - W + 1)..t : ret[u] # NaN)
                              => got = Root(FMul(
                                        SampleVar([u \in 1..W |->
                                                     ret[t - W + u]], W),
                                        Frac(252, 1)))

\* C21: the query and factor functions never raise on empty input; in
\* particular rank_cross_sectional applied to the empty result of a query
\* function returns an empty result.
C21_EmptyInputNeverRaises ==
    (last.op = "rank_cross_sectional" /\ last.args.df.rows = <<>>) =>
        /\ ~last.raised
        /\ last.df.rows = <<>>

(***************************************************************************)
(* import_daily_prices step by step, for calls that run concurrently on    *)
(* connections of their own.  sqlite3 opens a transaction before the first *)
(* INSERT; the statement needs the write lock of the database file, which  *)
(* one connection holds at a time until it commits or is closed.  A        *)
(* connection that finds the lock taken waits for it for the timeout of    *)
(* sqlite3.connect (5 seconds by default) and then raises                  *)
(* OperationalError: database is locked.                                   *)
(***************************************************************************)
Locked == \E c \in Conns : conns[c].lock

\* conn = get_connection(db_path)
Connect(c, df, symbol) ==
    /\ conns[c].pc = "none"
    /\ conns' = [conns EXCEPT ![c] = [NoConn EXCEPT !.pc = "open",
                                            !.symbol = symbol, !.df = df]]
    /\ UNCHANGED <<tables, now, last, ops, crawl>>

\* INSERT OR IGNORE INTO symbols: begins the transaction, takes the lock.
EnsureSymbol(c) ==
    /\ conns[c].pc = "open"
    /\ ~Locked
    /\ conns' = [conns EXCEPT ![c].pc = "ensured", ![c].lock = TRUE,
                             ![c].syms = InsertOrIgnoreSymbol(
                                            symbols, conns[c].symbol, now),
                             ![c].prices = daily_prices]
    /\ UNCHANGED <<tables, now, last, ops, crawl>>

\* The same statement when another connection keeps the lock longer than
\* the timeout: the call raises, nothing was written.
BusyTimeout(c) ==
    /\ conns[c].pc = "open"
    /\ Locked
    /\ conns' = [conns EXCEPT ![c].pc = "raised"]
    /\ UNCHANGED <<tables, now, last, ops, crawl>>

\* The preparation of the frame, which may raise.
Prepare(c) ==
    /\ conns[c].pc = "ensured"
    /\ conns' = [conns EXCEPT ![c].pc =
                    IF DailyPrepareRaises(conns[c].df) THEN "raised"
                    ELSE "prepared"]
    /\ UNCHANGED <<tables, now, last, ops, crawl>>

\* Every statement takes effect at once, as on a connection in autocommit
\* mode.
Autocommit(committed, written) == written
\* What other connections see of the table after a statement of an open
\* transaction: the committed content, the writes stay in the transaction.
Published(committed, written) == committed

\* executemany, one row: the row is written inside the open transaction.
UpsertRow(c) ==
    /\ conns[c].pc = "prepared"
    /\ conns[c].k < Len(conns[c].df.rows)
    /\ \E one \in {InsertOrReplace(
                     conns[c].prices, DailyKey, DailyCols,
                     AvailableCols(DailyImportCols, DailyPresent(conns[c].df)),
                     DailyRecord(conns[c].df, conns[c].symbol,
                                 conns[c].df.rows[conns[c].k + 1]),
                     now)} :
          /\ conns' = IF one.ok
                      THEN [conns EXCEPT ![c].prices = one.tbl,
                                         ![c].k = conns[c].k + 1]
                      ELSE [conns EXCEPT ![c].pc = "raised"]
          /\ daily_prices' = IF one.ok
                             THEN Published(daily_prices, one.tbl)
                             ELSE daily_prices
    /\ UNCHANGED <<symbols, fundamentals_quarterly, income_statement,
                   balance_sheet, cashflow, now, last, ops, crawl>>

\* conn.commit(); conn.close(): the transaction becomes the committed
\* content and the lock is free.
Commit(c) ==
    /\ conns[c].pc = "prepared"
    /\ conns[c].k = Len(conns[c].df.rows)
    /\ symbols' = conns[c].syms
    /\ daily_prices' = conns[c].prices
    /\ conns' = [conns EXCEPT ![c].pc = "returned", ![c].lock = FALSE]
    /\ UNCHANGED <<fundamentals_quarterly, income_statement, balance_sheet,
                   cashflow, now, last, ops, crawl>>

\* After a raise the connection, never closed by the function, is released
\* with the frame of the call: its transaction is rolled back.
Release(c) ==
    /\ conns[c].pc = "raised"
    /\ conns' = [conns EXCEPT ![c].pc = "failed", ![c].lock = FALSE]
    /\ UNCHANGED <<tables, now, last, ops, crawl>>

(***************************************************************************)
(* SpecConcurrent: connection 1 imports a frame for AAA while connection 2 *)
(* imports one for BBB, and a reader calls get_price_panel at any moment.  *)
(***************************************************************************)
ConcurrentSymbol == (1 :> "AAA") @@ (2 :> "BBB")
ConcurrentRows ==
    <<("date" :> Ts(D1, 0)) @@ ("close" :> Num(1)),
      ("date" :> Ts(D2, 0)) @@ ("close" :> Num(2)),
      ("date" :> NaN) @@ ("close" :> Num(3)),
      ("date" :> Text("32/13/2024")) @@ ("close" :> Num(4))>>
ConcurrentFrames ==
    {[columns |-> <<"date", "close">>, rows |-> rows] :
        rows \in {<<ConcurrentRows[1]>>,
                  <<ConcurrentRows[1], ConcurrentRows[2]>>,
                  <<ConcurrentRows[1], ConcurrentRows[3]>>,
                  <<ConcurrentRows[1], ConcurrentRows[4]>>}}

DoConnect ==
    \E c \in Conns, df \in ConcurrentFrames :
        Connect(c, df, ConcurrentSymbol[c])
DoEnsureSymbol == \E c \in Conns : EnsureSymbol(c)
DoBusyTimeout == \E c \in Conns : BusyTimeout(c)
DoPrepare == \E c \in Conns : Prepare(c)
DoUpsertRow == \E c \in Conns : UpsertRow(c)
DoCommit == \E c \in Conns : Commit(c)
DoRelease == \E c \in Conns : Release(c)
DoRead ==
    /\ get_price_panel(NULL, NULL, NULL, <<"close">>)
    /\ UNCHANGED <<ops, conns, crawl>>

NextConcurrent ==
    \/ DoConnect
    \/ DoEnsureSymbol
    \/ DoBusyTimeout
    \/ DoPrepare
    \/ DoUpsertRow
    \/ DoCommit
    \/ DoRelease
    \/ DoRead
SpecConcurrent == Init /\ [][NextConcurrent]_vars

\* The store after the call of connection a followed by the call of
\* connection b, each running alone on the empty store.
OneAfterTheOther(a, b) ==
    LET first == ImportDailyOutcome({}, {}, now, conns[a].df, conns[a].symbol)
        second == ImportDailyOutcome(first.symbols, first.table, now,
                                     conns[b].df, conns[b].symbol)
    IN  <<second.symbols, second.table>>

Finished(c) == conns[c].pc \in {"returned", "failed"}

\* C22: when two imports for different symbols run concurrently, every
\* interleaving of their steps ends in the store that running the two
\* imports one after the other gives.
C22_ConcurrentAsSerial ==
    (\A c \in Conns : Finished(c)) =>
        <<symbols, daily_prices>>
            \in {OneAfterTheOther(1, 2), OneAfterTheOther(2, 1)}

\* The dates of the rows of symbol sym that the last query returned.
SeenDates(sym) ==
    {last.df.rows[i]["date"] :
        i \in {j \in DOMAIN last.df.rows :
                 last.df.rows[j]["symbol"] = Text(sym)}}
\* The dates of the rows of the batch of connection c.
BatchDates(c) ==
    IF conns[c].pc = "none" THEN {}
    ELSE {ToDatetime(conns[c].df.rows[i]["date"]) :
             i \in DOMAIN conns[c].df.rows}

\* C27: a batch import is all-or-nothing for readers: a query at any point
\* during an import sees none or all of the rows of the batch, and when the
\* write of a row fails no row of the batch and no symbol record created by
\* the call is persisted.
C27_BatchAllOrNothing ==
    /\ last.op = "get_price_panel" =>
          \A c \in Conns :
              SeenDates(ConcurrentSymbol[c]) \in {{}, BatchDates(c)}
    /\ \A c \in Conns :
          conns[c].pc \in {"raised", "failed"} =>
              /\ \A x \in daily_prices : x["symbol"] # Text(conns[c].symbol)
              /\ \A x \in symbols : x["symbol"] # Text(conns[c].symbol)

C27_Witness ==
    /\ last.op = "get_price_panel"
    /\ Len(last.df.rows) = 2
    /\ SeenDates("AAA") = BatchDates(1)
    /\ conns[1].pc = "returned"
    /\ conns[2].pc = "raised"
    /\ conns[2].k = 1

(***************************************************************************)
(* SpecDates: one call of import_daily_prices with a frame of one row      *)
(* whose date is a text, DD/MM/YYYY or ISO.                                *)
(***************************************************************************)
TextDays == {1, 2, 5, 12, 13, 15, 28, 29, 30, 31}
TextMonths == {1, 2, 5, 11, 12}
DateTexts ==
    {Slash(d, m, 2024) : d \in TextDays, m \in TextMonths}
        \cup {Iso(<<2024, m, d>>) : d \in {5, 13}, m \in {2, 12}}
DatedFrames ==
    SingleRowFrames(<<"date", "close">>,
        {("date" :> v) @@ ("close" :> Num(1)) : v \in DateTexts})

DoImportDailyDated ==
    /\ last = NoCall
    /\ \E s \in Symbols, df \in DatedFrames : import_daily_prices(df, s)
    /\ UNCHANGED <<ops, conns, crawl>>

NextDates == DoImportDailyDated
SpecDates == Init /\ [][NextDates]_vars

\* The calendar day a date text names: day, month, year for DD/MM/YYYY.
NamedDay(v) == IF v.t = "slash" THEN <<v.y, v.b, v.a>> ELSE v.ymd
ValidText(v) ==
    /\ v.t \in {"slash", "iso"}
    /\ ValidDay(NamedDay(v)[1], NamedDay(v)[2], NamedDay(v)[3])

\* C23: a daily record whose date is given as DD/MM/YYYY or in ISO form is
\* stored under the ISO key of the same day, month and year, for every
\* valid calendar date, also when the day is 12 or less.
C23_DateKeptAsGiven ==
    (/\ last.op = "import_daily_prices"
     /\ ValidText(last.df.rows[1]["date"])) =>
        /\ ~last.raised
        /\ \E x \in daily_prices :
              /\ x["symbol"] = Text(last.symbol)
              /\ x["date"] = Iso(NamedDay(last.df.rows[1]["date"]))
        /\ \A x \in daily_prices :
              x["date"] = Iso(NamedDay(last.df.rows[1]["date"]))

(***************************************************************************)
(* SpecBalance: one call of import_balance_sheet with a frame of one row   *)
(* that carries any of short-term debt, long-term debt and a combined      *)
(* figure.                                                                 *)
(***************************************************************************)
DebtCells(col, values) ==
    {<<>>} \cup {<<[col |-> col, v |-> Num(n)]>> : n \in values}
DebtFrame(q, cells) ==
    [columns |-> <<"year", "quarter">>
                    \o [k \in DOMAIN cells |-> cells[k].col],
     rows |-> <<("year" :> Num(2024)) @@ ("quarter" :> Num(q))
                 @@ [c \in {cells[k].col : k \in DOMAIN cells} |->
                       cells[CHOOSE k \in DOMAIN cells : cells[k].col = c].v]>>]
DebtFrames ==
    {DebtFrame(q, short \o long \o total) :
        q \in 1..4,
        short \in DebtCells("shortDebt", {1, 2}),
        long \in DebtCells("longDebt", {3, 4}),
        total \in DebtCells("total_debt", {9})}

DoImportBalanceDebt ==
    /\ last = NoCall
    /\ \E s \in Symbols, df \in DebtFrames : import_balance_sheet(df, s)
    /\ UNCHANGED <<ops, conns, crawl>>

NextBalance == DoImportBalanceDebt
SpecBalance == Init /\ [][NextBalance]_vars

\* The component col of the row of the last frame, 0 when the frame does
\* not carry it.
Component(col) ==
    IF HasCol(last.df, col) THEN last.df.rows[1][col].v ELSE 0

\* C24: when a balance-sheet batch carries no combined debt figure, the
\* stored total_debt of each row is short-term debt + long-term debt,
\* whichever of the two components the batch provides.
C24_TotalDebtIsSum ==
    (/\ last.op = "import_balance_sheet"
     /\ ~HasCol(last.df, "total_debt")
     /\ HasCol(last.df, "shortDebt") \/ HasCol(last.df, "longDebt")) =>
        /\ ~last.raised
        /\ \E x \in balance_sheet : x["symbol"] = Text(last.symbol)
        /\ \A x \in balance_sheet :
              x["total_debt"]
                  = Num(Component("shortDebt") + Component("longDebt"))

(***************************************************************************)
(* fetch_historical_api (crawler/cafef_api.py): the paging loop, one       *)
(* request for each step.  A response of the server is a page: the request *)
(* fails (network error, HTTP status, no JSON), or it brings a JSON object *)
(* with the rows of the page and TotalCount (0 when the field is absent),  *)
(* or a JSON value of another shape, on which data.get / inner.get raises  *)
(* outside the try block.  fetch.pages keeps the pages received.           *)
(***************************************************************************)
ApiColMap ==
    [Ngay |-> "date", GiaMoCua |-> "open", GiaCaoNhat |-> "high",
     GiaThapNhat |-> "low", GiaDongCua |-> "close",
     GiaDieuChinh |-> "adj_close", KhoiLuongKhopLenh |-> "volume",
     GiaTriKhopLenh |-> "value", KLThoaThuan |-> "deal_volume",
     GtThoaThuan |-> "deal_value", ThayDoi |-> "change"]

\* pd.to_datetime(col, format="%d/%m/%Y", errors="coerce"), one cell.
Coerce(v) ==
    CASE v.t = "ts" -> v
      [] v.t = "slash" -> (IF DayFirst(v) = Raises THEN NaN ELSE DayFirst(v))
      [] OTHER -> NaN

\* Order of sort_values("date"): missing dates last.
DateOrder(x, y) ==
    IF x["date"] = NaN THEN y["date"] = NaN
    ELSE y["date"] = NaN \/ TsLe(x["date"], y["date"])

\* The frame built from the gathered rows: pd.DataFrame() when there is
\* none, else the renamed columns with the date parsed and sorted.
ApiFrame(all_rows) ==
    IF all_rows = <<>> THEN [columns |-> <<>>, rows |-> <<>>]
    ELSE CHOOSE out \in UNION {
            {[columns |-> <<MapName(ApiColMap, "Ngay"),
                            MapName(ApiColMap, "GiaDongCua")>>,
              rows |-> StableSort(named, le)] :
                le \in {[q \in (DOMAIN named) \X (DOMAIN named) |->
                           DateOrder(named[q[1]], named[q[2]])]}} :
            named \in {[i \in DOMAIN all_rows |->
                          [date |-> Coerce(all_rows[i]["Ngay"]),
                           close |-> all_rows[i]["GiaDongCua"]]]}} : TRUE

\* while page_index <= max_pages
MorePages(page_index, max_pages) == page_index <= max_pages

\* The count test that never ends the loop.
NeverEnough(count, total_count) == FALSE
\* if len(all_rows) >= total_count: break
Enough(count, total_count) == count >= total_count

fetch_historical_api(max_pages) ==
    /\ fetch.pc = "none"
    /\ fetch' = [NoFetch EXCEPT !.pc = "loop", !.max_pages = max_pages,
                                !.page_index = 1]
    /\ UNCHANGED <<tables, now, last, ops, conns, poll>>

\* One turn of the loop with the response page.
Request(page) ==
    /\ fetch.pc = "loop"
    /\ MorePages(fetch.page_index, fetch.max_pages)
    /\ fetch' =
         LET asked == [fetch EXCEPT !.requests = fetch.requests + 1,
                                    !.pages = Append(fetch.pages, page)]
         IN  CASE page.kind = "fails" ->
                    [asked EXCEPT !.pc = "after", !.stopped = "fails"]
               [] page.kind = "malformed" ->
                    [asked EXCEPT !.pc = "returned", !.stopped = "raises",
                                  !.out = Raises]
               [] page.rows = <<>> ->
                    [asked EXCEPT !.pc = "after", !.stopped = "empty"]
               [] Enough(Len(fetch.all_rows) + Len(page.rows), page.total) ->
                    [asked EXCEPT !.pc = "after", !.stopped = "total",
                                  !.all_rows = fetch.all_rows \o page.rows]
               [] OTHER ->
                    [asked EXCEPT !.all_rows = fetch.all_rows \o page.rows,
                                  !.page_index = fetch.page_index + 1]
    /\ UNCHANGED <<tables, now, last, ops, conns, poll>>

\* After the loop: the frame of the gathered rows is returned.
Return ==
    /\ \/ fetch.pc = "after"
       \/ /\ fetch.pc = "loop"
          /\ ~MorePages(fetch.page_index, fetch.max_pages)
    /\ fetch' = [fetch EXCEPT !.pc = "returned",
                              !.stopped = IF fetch.pc = "after"
                                          THEN fetch.stopped ELSE "max_pages",
                              !.out = ApiFrame(fetch.all_rows)]
    /\ UNCHANGED <<tables, now, last, ops, conns, poll>>

(***************************************************************************)
(* SpecFetch: one call of fetch_historical_api against a server that       *)
(* answers each request with any page.                                     *)
(***************************************************************************)
ApiRows ==
    <<("Ngay" :> Slash(9, 2, 2024)) @@ ("GiaDongCua" :> Num(1)),
      ("Ngay" :> Slash(5, 11, 2024)) @@ ("GiaDongCua" :> Num(2)),
      ("Ngay" :> Iso(D1)) @@ ("GiaDongCua" :> Num(3))>>
PageRows ==
    {<<>>, <<ApiRows[1]>>, <<ApiRows[2]>>, <<ApiRows[3]>>,
     <<ApiRows[2], ApiRows[1]>>}
ApiPages ==
    {[kind |-> "json", rows |-> rows, total |-> total] :
        rows \in PageRows, total \in {0, 2, 3, 5}}
        \cup {[kind |-> "fails", rows |-> <<>>, total |-> 0],
              [kind |-> "malformed", rows |-> <<>>, total |-> 0]}
MaxPagesArgs == 0..3

DoFetch == \E max_pages \in MaxPagesArgs : fetch_historical_api(max_pages)
DoRequest == \E page \in ApiPages : Request(page)
DoReturn == Return

NextFetch == DoFetch \/ DoRequest \/ DoReturn
SpecFetch == Init /\ [][NextFetch]_vars
\* The call runs on: no step waits for anything but the response, which
\* arrives or fails within the timeout of the request.
SpecFetchLive == SpecFetch /\ WF_vars(NextFetch)

RECURSIVE Gathered(_)
\* The rows of the pages received, in the order received.
Gathered(pages) ==
    IF pages = <<>> THEN <<>>
    ELSE Head(pages).rows \o Gathered(Tail(pages))

\* The number of rows the pages before page k brought.
CountBefore(pages, k) == Len(Gathered(SubSeq(pages, 1, k - 1)))
\* Page k ends the loop: it failed, is empty, or completes TotalCount.
Stops(pages, k) ==
    \/ pages[k].kind = "fails"
    \/ pages[k].rows = <<>>
    \/ CountBefore(pages, k) + Len(pages[k].rows) >= pages[k].total
WellFormed(pages) == \A k \in DOMAIN pages : pages[k].kind # "malformed"
Occurrences(seq, x) == Cardinality({i \in DOMAIN seq : seq[i] = x})

\* What a call that has returned must satisfy.
FetchReturned ==
    (fetch.pc = "returned" /\ WellFormed(fetch.pages)) =>
        /\ fetch.out # Raises
        /\ \A k \in 1..(Len(fetch.pages) - 1) : ~Stops(fetch.pages, k)
        /\ \/ Len(fetch.pages) = fetch.max_pages
           \/ fetch.max_pages < 0 /\ fetch.pages = <<>>
           \/ fetch.pages # <<>> /\ Stops(fetch.pages, Len(fetch.pages))
        /\ \A want \in {[j \in DOMAIN g |->
                             [date |-> Coerce(g[j]["Ngay"]),
                              close |-> g[j]["GiaDongCua"]]] :
                          g \in {Gathered(fetch.pages)}} :
           \A got \in {[i \in DOMAIN fetch.out.rows |->
                           [date |-> fetch.out.rows[i]["date"],
                            close |-> fetch.out.rows[i]["close"]]]} :
              /\ Len(got) = Len(want)
              /\ \A i \in DOMAIN got :
                    Occurrences(got, got[i]) = Occurrences(want, got[i])
              /\ \A i, j \in DOMAIN got :
                    i <= j => DateOrder(got[i], got[j])

poll_symbols(syms, limited, max_iterations) ==
    /\ poll.pc = "none"
    /\ poll' = [NoPoll EXCEPT !.pc = "round", !.symbols = syms,
                              !.limited = limited,
                              !.max_iterations = max_iterations, !.at = 1]
    /\ UNCHANGED <<tables, now, last, ops, conns, fetch>>

\* for sym in symbols: try ... except Exception
PollOne(ok) ==
    /\ poll.pc = "round"
    /\ poll.at <= Len(poll.symbols)
    /\ poll' = [poll EXCEPT !.at = poll.at + 1,
                            !.attempts = Append(poll.attempts,
                                [round |-> poll.iter_count + 1,
                                 sym |-> poll.symbols[poll.at],
                                 ok |-> ok])]
    /\ UNCHANGED <<tables, now, last, ops, conns, fetch>>

\* iter_count += 1; break when the limit is reached, else sleep and go on.
EndRound ==
    /\ poll.pc = "round"
    /\ poll.at > Len(poll.symbols)
    /\ poll.iter_count < MaxRounds
    /\ poll' = IF poll.limited /\ poll.iter_count + 1 >= poll.max_iterations
               THEN [poll EXCEPT !.iter_count = poll.iter_count + 1,
                                 !.pc = "returned"]
               ELSE [poll EXCEPT !.iter_count = poll.iter_count + 1,
                                 !.at = 1]
    /\ UNCHANGED <<tables, now, last, ops, conns, fetch>>

(***************************************************************************)
(* SpecPoll: one call of poll_symbols.                                     *)
(***************************************************************************)
PollLists == {<<>>, <<"AAA">>, <<"AAA", "BBB">>, <<"BBB", "AAA">>}

DoPoll ==
    \E syms \in PollLists :
        \/ poll_symbols(syms, FALSE, 0)
        \/ \E n \in 0..MaxRounds : poll_symbols(syms, TRUE, n)
DoPollOne == \E ok \in BOOLEAN : PollOne(ok)
DoEndRound == EndRound

NextPoll == DoPoll \/ DoPollOne \/ DoEndRound
SpecPoll == Init /\ [][NextPoll]_vars

\* C26: poll_symbols called with max_iterations = N stops after exactly N
\* polling rounds for every N >= 0; each round attempts every symbol of
\* the list once in list order, whether or not earlier polls failed.
C26_ExactlyNRounds ==
    (poll.pc = "returned" /\ poll.max_iterations >= 0) =>
        /\ poll.iter_count = poll.max_iterations
        /\ Len(poll.attempts) = poll.max_iterations * Len(poll.symbols)
        /\ \A k \in DOMAIN poll.attempts :
              /\ poll.attempts[k].round = ((k - 1) \div Len(poll.symbols)) + 1
              /\ poll.attempts[k].sym
                    = poll.symbols[((k - 1) % Len(poll.symbols)) + 1]

(***************************************************************************)
(* SpecReimport: a first import of AAA with open, close and volume, then   *)
(* imports of AAA that supply fewer columns.                               *)
(***************************************************************************)
FullDailyFrames ==
    SingleRowFrames(<<"date", "open", "close", "volume">>,
        {("date" :> Ts(d, 0)) @@ ("open" :> Num(o)) @@ ("close" :> Num(c))
            @@ ("volume" :> Num(7)) :
            d \in {D1, D2}, o \in {5, 6}, c \in {1, 2}})
PartialDailyFrames ==
    SingleRowFrames(<<"date", "close">>,
        {("date" :> Ts(d, 0)) @@ ("close" :> Num(c)) :
            d \in {D1, D2}, c \in {1, 2, 3}})
    \cup SingleRowFrames(<<"date", "close", "volume">>,
        {("date" :> Ts(d, 0)) @@ ("close" :> Num(c)) @@ ("volume" :> Num(8)) :
            d \in {D1, D2}, c \in {1, 2}})

DoFirstImport ==
    /\ ops = 0
    /\ ops' = 1
    /\ \E df \in FullDailyFrames : import_daily_prices(df, "AAA")
    /\ UNCHANGED <<conns, crawl>>
DoReimport ==
    /\ ops >= 1
    /\ Counted
    /\ \E df \in PartialDailyFrames : import_daily_prices(df, "AAA")

NextReimport == DoFirstImport \/ DoReimport
SpecReimport == Init /\ [][NextReimport]_vars

\* C28: importing a (symbol, date) row replaces the whole stored row: every
\* daily_prices column the new batch does not supply (the derived fields
\* returns, volatility_20d, avg_volume_20d and any price column of an
\* earlier import) is null afterwards.
C28_ReimportReplacesWholeRow ==
    IsCall("import_daily_prices") =>
        \A i \in DOMAIN last.df.rows :
           \A x \in DailyRowsOf(last.symbol,
                                ToDatetime(last.df.rows[i]["date"]).ymd) :
              \A c \in DailyCols \ ({"symbol"} \cup Range(last.df.columns)) :
                  x[c] = NULL

\* The second import, without open and volume, hit the key of the first.
C28_Witness ==
    /\ IsCall("import_daily_prices")
    /\ ops = 2
    /\ last.df.columns = <<"date", "close">>
    /\ Cardinality(daily_prices) = 1
    /\ \A x \in daily_prices :
          /\ x["open"] = NULL
          /\ x["volume"] = NULL
          /\ x["close"] = Num(3)

\* C29: get_merged_data returns exactly one row for each (date, symbol) row
\* of the price panel it builds: the join with the fundamentals and the
\* forward fill drop, duplicate or add no price row and change no value of
\* a price column.
C29_MergedRowsArePanelRows ==
    IsCall("get_merged_data") =>
        \A panel \in {PricePanel(daily_prices, last.args.symbols,
                                 last.args.start_date, last.args.end_date,
                                 last.args.columns)} :
            /\ Len(last.df.rows) = Len(panel.rows)
            /\ \A i \in DOMAIN panel.rows :
                  Cardinality({j \in DOMAIN last.df.rows :
                      /\ last.df.rows[j]["date"] = panel.rows[i]["date"]
                      /\ last.df.rows[j]["symbol"] = panel.rows[i]["symbol"]
                      /\ \A c \in Range(last.args.columns) :
                            last.df.rows[j][c] = panel.rows[i][c]}) = 1

\* Three price rows of two symbols came back joined, one with a figure of
\* its quarter and one without any.
C29_Witness ==
    /\ IsCall("get_merged_data")
    /\ Len(last.df.rows) >= 3
    /\ \E i, j \in DOMAIN last.df.rows :
          /\ last.df.rows[i]["symbol"] # last.df.rows[j]["symbol"]
          /\ "pe" \in DOMAIN last.df.rows[i]
          /\ last.df.rows[i]["pe"] # NaN
          /\ last.df.rows[j]["pe"] = NaN

====
